---- MODULE Spec2Model ----
(***************************************************************************)
(* SmallAPI (GrandpaEJ/smallapi): the router, the request context and the  *)
(* middleware pipeline of App.ServeHTTP.                                   *)
(*                                                                         *)
(* Strings that the code takes apart (paths, path templates) are modelled  *)
(* as sequences of one-character strings, so that strings.Trim,            *)
(* strings.Split and strings.HasPrefix are computed, not assumed.          *)
(***************************************************************************)
EXTENDS Integers, Sequences, FiniteSets, TLC

VARIABLES
  routes,      \* Router.routes: the registered routes, in registration order
  middleware,  \* App.middleware: the registered middleware, in order
  static,      \* App.static: the URL prefixes served from a directory
  uses,        \* history: the App.Use calls, in the order they were made
  pc,          \* where App.ServeHTTP stands for the request being served
  ctx,         \* the Context of the request (with its Request and Response)
  mwIdx,       \* index of the next middleware of the loop in ServeHTTP
  handler,     \* the handler Match returned for this request
  hpc,         \* the next statement of the running handler
  deferred,    \* the deferred functions of ServeHTTP's frame
  trace,       \* history: the middleware and handler calls of this request
  outcome,     \* history: how a panic of this request ended
  probe,       \* the Router driven alone: last Add and last Match
  sessions,    \* SessionManager.sessions: session ID -> *Session
  heap,        \* the Session objects allocated so far, by address
  smMutex,     \* SessionManager.mutex: who holds it (0: nobody)
  issued,      \* how many session IDs generateSessionID has produced
  stored,      \* history: per session ID, what its requests last stored
  gor,         \* the goroutines serving requests that use sessions
  limiter,     \* RateLimit: requestsPerMinute and the clients map, IP -> *client
  now,         \* RateLimit: the clock, time.Now()
  calls,       \* history: RateLimit's last call and each client's window
  group,       \* history: what was registered through a RouteGroup
  up,          \* Context.Upgrade: the call, the connection, the handler
  conn,        \* WebSocket: the bytes on the connection and the last message
  validation,  \* Context.Validate: the struct handed in and the error returned
  auth,        \* AuthManager: users, sessions, and the requests using them
  hub,         \* the WebSocket hub: clients, rooms, channels, goroutines
  timing,      \* Logger and Timeout: the clock, the log, the done channel
  sends,       \* a Context on which a handler calls response-sending methods
  accept       \* calculateAcceptKey: the key and the value computed

appVars == <<routes, middleware, static, uses, pc, ctx, mwIdx, handler, hpc, deferred,
             trace, outcome, probe>>

sessVars == <<sessions, heap, smMutex, issued, stored, gor>>

rateVars == <<limiter, now, calls>>

wsVars == <<up, conn>>

moreVars == <<validation, auth, hub, timing, sends, accept>>

\* what the App pipeline and the router probe leave alone
ext == <<sessVars, rateVars, group, wsVars, moreVars>>

vars == <<appVars, ext>>

(***************************************************************************)
(* Bounds of the model.                                                    *)
(***************************************************************************)
MaxPathLen == 3      \* longest path / template string of the router probe
MaxMiddleware == 2   \* most middleware registered with App.Use
MaxRoutes == 2       \* most routes registered on the App

(***************************************************************************)
(* Strings as sequences of characters.                                     *)
(***************************************************************************)
Alphabet == {"/", ":", "a"}

RECURSIVE StringsOfLen(_)
StringsOfLen(n) ==
  IF n = 0 THEN {<<>>}
  ELSE {Append(s, ch) : s \in StringsOfLen(n - 1), ch \in Alphabet}

Strings == UNION {StringsOfLen(n) : n \in 0..MaxPathLen}

\* strings.Trim(path, "/"): drops every leading and every trailing "/"
RECURSIVE TrimLeft(_)
TrimLeft(s) ==
  IF s # <<>> /\ Head(s) = "/" THEN TrimLeft(Tail(s)) ELSE s

RECURSIVE TrimRight(_)
TrimRight(s) ==
  IF s # <<>> /\ s[Len(s)] = "/" THEN TrimRight(SubSeq(s, 1, Len(s) - 1)) ELSE s

\* strings.Trim with a slip: only the leading slashes are dropped
Trim_Leading(s) == TrimLeft(s)

Trim(s) == TrimRight(TrimLeft(s))

\* strings.Split(s, "/"): one piece more than there are separators; the
\* empty string gives the one piece ""
RECURSIVE SplitAcc(_, _, _)
SplitAcc(s, cur, acc) ==
  IF s = <<>> THEN Append(acc, cur)
  ELSE IF Head(s) = "/" THEN SplitAcc(Tail(s), <<>>, Append(acc, cur))
  ELSE SplitAcc(Tail(s), Append(cur, Head(s)), acc)

Split(s) == SplitAcc(s, <<>>, <<>>)

\* strings.HasPrefix(segment, ":")
HasPrefix(segment) == segment # <<>> /\ Head(segment) = ":"

(***************************************************************************)
(* Go maps from string to string, as functions on the set of their keys.   *)
(***************************************************************************)
EmptyMap == [k \in {} |-> <<>>]

MapSet(m, k, v) == [x \in (DOMAIN m) \cup {k} |-> IF x = k THEN v ELSE m[x]]

(***************************************************************************)
(* Router                                                                  *)
(***************************************************************************)
NilHandler == "nil"

\* compilePattern with a slip: the parameter's name keeps its ":"
compilePattern_KeepColon(path) ==
  LET segments == Split(Trim(path))
  IN  [Segments |->
        [i \in 1..Len(segments) |->
          IF HasPrefix(segments[i])
          THEN [IsParam |-> TRUE, Name |-> segments[i], Value |-> <<>>]
          ELSE [IsParam |-> FALSE, Name |-> <<>>, Value |-> segments[i]]]]

\* Router.compilePattern
compilePattern(path) ==
  LET segments == Split(Trim(path))
  IN  [Segments |->
        [i \in 1..Len(segments) |->
          IF HasPrefix(segments[i])
          THEN [IsParam |-> TRUE, Name |-> Tail(segments[i]), Value |-> <<>>]
          ELSE [IsParam |-> FALSE, Name |-> <<>>, Value |-> segments[i]]]]

\* Router.Add: the router's route list after Add(method, path, h)
Add(rs, method, path, h) ==
  Append(rs, [Method |-> method, Path |-> path, Handler |-> h,
              Pattern |-> compilePattern(path)])

\* the loop of Router.matchPattern, from segment i on
RECURSIVE matchLoop(_, _, _, _)
matchLoop(segs, pathSegments, i, params) ==
  IF i > Len(segs) THEN [params |-> params, nil |-> FALSE, matches |-> TRUE]
  ELSE IF segs[i].IsParam
       THEN matchLoop(segs, pathSegments, i + 1,
                      MapSet(params, segs[i].Name, pathSegments[i]))
       ELSE IF segs[i].Value # pathSegments[i]
            THEN [params |-> EmptyMap, nil |-> TRUE, matches |-> FALSE]
            ELSE matchLoop(segs, pathSegments, i + 1, params)

\* matchPattern with a slip: a path longer than the pattern is accepted
matchPattern_Prefix(pattern, pathSegments) ==
  IF Len(pattern.Segments) > Len(pathSegments)
  THEN [params |-> EmptyMap, nil |-> TRUE, matches |-> FALSE]
  ELSE matchLoop(pattern.Segments, pathSegments, 1, EmptyMap)

\* Router.matchPattern
matchPattern(pattern, pathSegments) ==
  IF Len(pattern.Segments) # Len(pathSegments)
  THEN [params |-> EmptyMap, nil |-> TRUE, matches |-> FALSE]
  ELSE matchLoop(pattern.Segments, pathSegments, 1, EmptyMap)

\* the loop of Router.Match, from route i on
RECURSIVE matchScan(_, _, _, _)
matchScan(rs, method, pathSegments, i) ==
  IF i > Len(rs)
  THEN [handler |-> NilHandler, params |-> EmptyMap, nil |-> TRUE]
  ELSE IF rs[i].Method # method
       THEN matchScan(rs, method, pathSegments, i + 1)
       ELSE LET m == matchPattern(rs[i].Pattern, pathSegments)
            IN  IF m.matches
                THEN [handler |-> rs[i].Handler, params |-> m.params,
                      nil |-> m.nil]
                ELSE matchScan(rs, method, pathSegments, i + 1)

\* Match with a slip: the routes are scanned from the last one registered
Match_LastWins(rs, method, path) ==
  matchScan([i \in 1..Len(rs) |-> rs[Len(rs) + 1 - i]], method,
            Split(Trim(path)), 1)

\* Router.Match
Match(rs, method, path) == matchScan(rs, method, Split(Trim(path)), 1)

(***************************************************************************)
(* Request, http.ResponseWriter and Context                                *)
(***************************************************************************)
BodyLen == 17   \* Content-Length of the requests of the model that carry a body

\* The requests served: a method, a path, a Content-Length and the state of
\* the body stream ("json": a JSON value is waiting to be read, "garbage":
\* bytes that are no JSON value, "eof": nothing left to read).
RequestPaths ==
  { <<"/", "u", "/", "7">>, <<"/", "u", "/", "m", "e">>, <<"/", "u">>,
    <<"/", "x">> }

RequestShapes ==
  { [Method |-> "GET",  ContentLength |-> 0,       Body |-> "eof"],
    [Method |-> "GET",  ContentLength |-> BodyLen, Body |-> "json"],
    [Method |-> "POST", ContentLength |-> 0,       Body |-> "eof"],
    [Method |-> "POST", ContentLength |-> BodyLen, Body |-> "json"],
    [Method |-> "POST", ContentLength |-> BodyLen, Body |-> "garbage"] }

Requests ==
  { [Method |-> sh.Method, Path |-> p, ContentLength |-> sh.ContentLength,
     Body |-> sh.Body] : sh \in RequestShapes, p \in RequestPaths }

NoRequest == [Method |-> "", Path |-> <<>>, ContentLength |-> 0, Body |-> "eof"]

\* the ResponseWriter before anything was sent: status 0 stands for
\* "no status line sent yet"
NewResponse == [status |-> 0, contentType |-> "", header |-> EmptyMap, body |-> <<>>]

\* Response.Header().Set("Content-Type", ct): headers are frozen once the
\* status line went out
SetContentType(w, ct) ==
  IF w.status = 0 THEN [w EXCEPT !.contentType = ct] ELSE w

\* Response.WriteHeader(code): a second call changes nothing
WriteHeader(w, code) ==
  IF w.status = 0 THEN [w EXCEPT !.status = code] ELSE w

\* Response.Write(data): sends the status line with 200 if none was sent
Write(w, data) ==
  [WriteHeader(w, 200) EXCEPT !.body = Append(@, data)]

\* NewContext with a slip: the route is matched when the context is made
NewContext_Matched(r) ==
  [Request |-> r, Response |-> NewResponse,
   params |-> Match(routes, r.Method, r.Path).params,
   written |-> FALSE, statusCode |-> 200]

\* NewContext
NewContext(r) ==
  [Request |-> r, Response |-> NewResponse, params |-> EmptyMap,
   written |-> FALSE, statusCode |-> 200]

\* Context.Status
Status(c, code) == [c EXCEPT !.statusCode = code]

\* Context.Header: c.Response.Header().Set(key, value); headers are frozen
\* once the status line went out
Header(c, key, value) ==
  IF c.Response.status = 0
  THEN [c EXCEPT !.Response.header = MapSet(@, key, value)]
  ELSE c

\* Context.sendJSON
sendJSON(c, v) ==
  LET w0 == SetContentType(c.Response, "application/json")
      w1 == IF c.statusCode # 200 THEN WriteHeader(w0, c.statusCode) ELSE w0
  IN  [c   |-> [c EXCEPT !.written = TRUE, !.Response = Write(w1, v.val)],
       err |-> FALSE]

\* json.NewDecoder(c.Request.Body).Decode(v): reads the next JSON value of the
\* body stream and stores it through the pointer v
Decode(c, v) ==
  IF c.Request.Body = "json"
  THEN [c |-> [c EXCEPT !.Request.Body = "eof"], err |-> ~v.ptr]
  ELSE [c |-> [c EXCEPT !.Request.Body = "eof"], err |-> TRUE]

\* Context.JSON with a slip: the mode is taken from the method alone
JSON_ByMethod(c, v) ==
  IF c.Request.Method = "GET"
  THEN sendJSON(c, v)
  ELSE Decode(c, v)

\* Context.JSON
JSON(c, v) ==
  IF c.Request.Method = "GET" \/ c.Request.ContentLength = 0
  THEN sendJSON(c, v)
  ELSE Decode(c, v)

\* Context.String with a guard it does not have: nothing is sent twice
String_Once(c, text) ==
  LET w0 == SetContentType(c.Response, "text/plain")
      w1 == IF c.statusCode # 200 THEN WriteHeader(w0, c.statusCode) ELSE w0
  IN  IF c.written
      THEN c
      ELSE [c EXCEPT !.written = TRUE, !.Response = Write(w1, text)]

\* Context.String
String(c, text) ==
  LET w0 == SetContentType(c.Response, "text/plain")
      w1 == IF c.statusCode # 200 THEN WriteHeader(w0, c.statusCode) ELSE w0
  IN  [c EXCEPT !.written = TRUE, !.Response = Write(w1, text)]

\* Context.HTML
HTML(c, html) ==
  LET w0 == SetContentType(c.Response, "text/html")
      w1 == IF c.statusCode # 200 THEN WriteHeader(w0, c.statusCode) ELSE w0
  IN  [c EXCEPT !.written = TRUE, !.Response = Write(w1, html)]

\* Context.Render: rendered is what the template gives, "" when the template
\* engine returns an error or empty output, and then nothing is written
Render(c, rendered) ==
  LET w0 == SetContentType(c.Response, "text/html")
      w1 == IF c.statusCode # 200 THEN WriteHeader(w0, c.statusCode) ELSE w0
  IN  [c   |-> [c EXCEPT !.written = TRUE,
                         !.Response = IF rendered # "" THEN Write(w1, rendered) ELSE w1],
       err |-> rendered = ""]

\* Context.File: http.ServeFile sends the file, or 404 with a text body
File(c, fileExists) ==
  LET w == c.Response
  IN  [c EXCEPT !.written = TRUE,
                !.Response =
                  IF fileExists
                  THEN Write(IF w.contentType = "" THEN SetContentType(w, "by extension")
                                                   ELSE w, "file")
                  ELSE Write(WriteHeader(SetContentType(w, "text/plain"), 404),
                             "404 page not found")]

\* Context.Redirect: http.Redirect sets Location, sends 302 and, for a GET
\* request whose response has no Content-Type yet, a short HTML body
Redirect(c, url) ==
  LET hadCT == c.Response.contentType # ""
      get == c.Request.Method = "GET"
      w0 == Header(c, "Location", url).Response
      w1 == IF ~hadCT /\ get THEN SetContentType(w0, "text/html") ELSE w0
      w2 == WriteHeader(w1, 302)
  IN  [c EXCEPT !.written = TRUE,
                !.Response = IF ~hadCT /\ get THEN Write(w2, "Found") ELSE w2]

\* the values handed to Context.JSON: ptr says whether it is a pointer
ErrValue(msg) == [ptr |-> FALSE, val |-> msg]

NotFound == ErrValue("{error: Not Found}")

InternalServerError == ErrValue("{error: Internal Server Error}")

(***************************************************************************)
(* Middleware and handlers installed on the App                            *)
(***************************************************************************)
\* The middleware of the model: Secure and Recovery of the framework,
\* BasicAuth facing requests that carry no credentials, and a middleware
\* of the application whose body panics.
MiddlewareKinds == {"Secure", "BasicAuth", "Recovery", "Panics"}

\* Secure: sets headers, continues
Secure(c) == [c |-> c, ret |-> "true", recovered |-> FALSE]

\* BasicAuth: Request.BasicAuth() finds no credentials: 401 and stop
BasicAuth(c) ==
  [c |-> JSON(Status(c, 401), ErrValue("{error: Unauthorized}")).c,
   ret |-> "false", recovered |-> FALSE]

\* Recovery: defers a function that calls recover(), then returns true. The
\* deferred function runs when this middleware returns; r is what recover()
\* gives it: the panic raised by the body `return true`, that is none.
Recovery(c) ==
  LET r == "nil"
  IN  [c |-> IF r # "nil" /\ ~c.written
             THEN JSON(Status(c, 500), InternalServerError).c
             ELSE c,
       ret |-> "true", recovered |-> r # "nil"]

\* a middleware whose body panics
Panics(c) == [c |-> c, ret |-> "panic", recovered |-> FALSE]

\* the call middleware(ctx) of ServeHTTP's loop
CallMiddleware(kind, c) ==
  CASE kind = "Secure"    -> Secure(c)
    [] kind = "BasicAuth" -> BasicAuth(c)
    [] kind = "Recovery"  -> Recovery(c)
    [] kind = "Panics"    -> Panics(c)

\* The handlers of the model:
\*   show        c.JSON(map) with a path parameter (hello example)
\*   createUser  the POST handler of the README: c.JSON(&user), then
\*               c.Status(400).JSON(err) or c.Status(201).JSON(user)
\*   boom        panics at once
\*   writeBoom   c.String(...), then panics
Handlers == {"show", "createUser", "boom", "writeBoom"}

PathUserId == <<"/", "u", "/", ":", "i", "d">>
PathUserMe == <<"/", "u", "/", "m", "e">>
PathUsers  == <<"/", "u">>

\* the registrations the application may make, each App.Get or App.Post
Registrations ==
  { [Method |-> "GET",  Path |-> PathUserId, Handler |-> "show"],
    [Method |-> "GET",  Path |-> PathUserId, Handler |-> "boom"],
    [Method |-> "GET",  Path |-> PathUserMe, Handler |-> "writeBoom"],
    [Method |-> "POST", Path |-> PathUsers,  Handler |-> "createUser"],
    [Method |-> "POST", Path |-> PathUsers,  Handler |-> "boom"] }

\* the URL prefixes the application may serve from a directory
StaticPrefixes == { <<"/", "u">> }

(***************************************************************************)
(* App: registration                                                       *)
(***************************************************************************)
Idle == pc = "idle"

reqVars == <<pc, ctx, mwIdx, handler, hpc, deferred, trace, outcome>>

\* App.Use with a slip: the middleware is put in front of the list
Use_Prepend(m) ==
  /\ Idle
  /\ Len(middleware) < MaxMiddleware
  /\ middleware' = <<m>> \o middleware
  /\ uses' = Append(uses, m)
  /\ UNCHANGED <<routes, static, reqVars, probe, ext>>

\* App.Use
Use(m) ==
  /\ Idle
  /\ Len(middleware) < MaxMiddleware
  /\ middleware' = Append(middleware, m)
  /\ uses' = Append(uses, m)
  /\ UNCHANGED <<routes, static, reqVars, probe, ext>>

\* App.Static(urlPath, dirPath)
Static(urlPath) ==
  /\ Idle
  /\ urlPath \notin static
  /\ static' = static \cup {urlPath}
  /\ UNCHANGED <<routes, middleware, uses, reqVars, probe, ext>>

\* App.Get / App.Post: router.Add(method, path, handler)
Register(reg) ==
  /\ Idle
  /\ Len(routes) < MaxRoutes
  /\ routes' = Add(routes, reg.Method, reg.Path, reg.Handler)
  /\ UNCHANGED <<middleware, static, uses, reqVars, probe, ext>>

(***************************************************************************)
(* App.ServeHTTP                                                           *)
(***************************************************************************)
\* an entry of the history: what was called ("static", "handler" or the
\* middleware), its index in App.middleware (0 if none), how it ended
Event(call, idx, ret) == [call |-> call, idx |-> idx, ret |-> ret]

\* A panic unwinds ServeHTTP's frame: its deferred function, if already
\* registered, recovers it, logs it and answers 500 unless ctx.written.
\* Gives the context and how the panic ended.
Unwind(c, defs) ==
  IF defs # <<>>
  THEN [c |-> IF ~c.written
              THEN JSON(Status(c, 500), InternalServerError).c
              ELSE c,
        outcome |-> "recovered in ServeHTTP"]
  ELSE [c |-> c, outcome |-> "left ServeHTTP"]

\* r.URL.Path[:len(urlPath)] == urlPath
HasUrlPrefix(path, urlPath) ==
  Len(path) >= Len(urlPath) /\ SubSeq(path, 1, Len(urlPath)) = urlPath

\* the static check with a slip: the `return` after http.ServeFile is missing
ServeHTTPBegin_NoReturn(r, fileExists) ==
  /\ Idle
  /\ IF fileExists /\ \E urlPath \in static : HasUrlPrefix(r.Path, urlPath)
     THEN /\ ctx' = [NewContext(r) EXCEPT !.Response = Write(@, "file")]
          /\ trace' = Append(trace, Event("static", 0, "served"))
     ELSE /\ ctx' = NewContext(r)
          /\ trace' = trace
  /\ pc' = "middleware"
  /\ mwIdx' = 1
  /\ UNCHANGED <<routes, middleware, static, uses, handler, hpc, deferred,
                 outcome, probe, ext>>

\* ServeHTTP up to the middleware loop: a request arrives, NewContext, and
\* the static check: a request under a static prefix whose file os.Stat
\* finds (fileExists) is answered by http.ServeFile and ServeHTTP returns
ServeHTTPBegin(r, fileExists) ==
  /\ Idle
  /\ IF fileExists /\ \E urlPath \in static : HasUrlPrefix(r.Path, urlPath)
     THEN /\ ctx' = [NewContext(r) EXCEPT !.Response = Write(@, "file")]
          /\ pc' = "done"
          /\ mwIdx' = 0
          /\ trace' = Append(trace, Event("static", 0, "served"))
     ELSE /\ ctx' = NewContext(r)
          /\ pc' = "middleware"
          /\ mwIdx' = 1
          /\ trace' = trace
  /\ UNCHANGED <<routes, middleware, static, uses, handler, hpc, deferred,
                 outcome, probe, ext>>

\* the check of the middleware's result with a slip: the loop always goes on
AfterMiddleware_Continue(ret) == "middleware"

\* `if !middleware(ctx) { return }`: where ServeHTTP goes after a middleware
\* returned ret
AfterMiddleware(ret) == IF ret = "true" THEN "middleware" ELSE "done"

\* one round of the loop `for _, middleware := range a.middleware`
RunMiddleware ==
  /\ pc = "middleware"
  /\ mwIdx <= Len(middleware)
  /\ middleware[mwIdx] \in MiddlewareKinds
  /\ LET res == CallMiddleware(middleware[mwIdx], ctx)
     IN  /\ trace' = Append(trace, Event(middleware[mwIdx], mwIdx, res.ret))
         /\ IF res.ret = "panic"
            THEN LET u == Unwind(res.c, deferred)
                 IN  /\ ctx' = u.c
                     /\ pc' = "done"
                     /\ mwIdx' = mwIdx
                     /\ outcome' = u.outcome
            ELSE /\ ctx' = res.c
                 /\ pc' = AfterMiddleware(res.ret)
                 /\ mwIdx' = IF pc' = "middleware" THEN mwIdx + 1 ELSE mwIdx
                 /\ outcome' = IF res.recovered
                               THEN "recovered in Recovery"
                               ELSE outcome
  /\ UNCHANGED <<routes, middleware, static, uses, handler, hpc, deferred,
                 probe, ext>>

\* after the loop: router.Match, 404 if no route, else ctx.params, the
\* deferred recover and the call of the handler
MatchRoute ==
  /\ pc = "middleware"
  /\ mwIdx > Len(middleware)
  /\ LET m == Match(routes, ctx.Request.Method, ctx.Request.Path)
     IN  IF m.handler = NilHandler
         THEN /\ ctx' = JSON(Status(ctx, 404), NotFound).c
              /\ pc' = "done"
              /\ UNCHANGED <<handler, hpc, deferred, trace>>
         ELSE /\ ctx' = [ctx EXCEPT !.params = m.params]
              /\ deferred' = <<"recover">>
              /\ handler' = m.handler
              /\ hpc' = "start"
              /\ pc' = "handler"
              /\ trace' = Append(trace, Event("handler", 0, "called"))
  /\ UNCHANGED <<routes, middleware, static, uses, mwIdx, outcome, probe, ext>>

\* the handler returns: ServeHTTP's deferred function runs, recover() gives
\* nil, ServeHTTP returns
Return(c) ==
  /\ ctx' = c
  /\ pc' = "done"
  /\ deferred' = <<>>
  /\ hpc' = "returned"
  /\ UNCHANGED <<routes, middleware, static, uses, mwIdx, handler, trace,
                 outcome, probe, ext>>

\* the handler panics: the panic unwinds ServeHTTP's frame
Panic(c) ==
  /\ LET u == Unwind(c, deferred)
     IN  /\ ctx' = u.c
         /\ outcome' = u.outcome
  /\ pc' = "done"
  /\ deferred' = <<>>
  /\ hpc' = "panicked"
  /\ UNCHANGED <<routes, middleware, static, uses, mwIdx, handler, trace,
                 probe, ext>>

\* the handler goes on to its statement at
Goto(c, at) ==
  /\ ctx' = c
  /\ hpc' = at
  /\ UNCHANGED <<routes, middleware, static, uses, pc, mwIdx, handler,
                 deferred, trace, outcome, probe, ext>>

Running(h, at) == pc = "handler" /\ handler = h /\ hpc = at

\* show: c.JSON(map[string]string{...})
HandlerShow ==
  /\ Running("show", "start")
  /\ Return(JSON(ctx, [ptr |-> FALSE, val |-> "{message}"]).c)

\* createUser: if err := c.JSON(&user); err != nil
HandlerCreateUserRead ==
  /\ Running("createUser", "start")
  /\ LET r == JSON(ctx, [ptr |-> TRUE, val |-> "user"])
     IN  Goto(r.c, IF r.err THEN "invalid" ELSE "parsed")

\* createUser: c.Status(400).JSON(map[string]string{"error": "Invalid JSON"})
HandlerCreateUserInvalid ==
  /\ Running("createUser", "invalid")
  /\ Return(JSON(Status(ctx, 400), ErrValue("{error: Invalid JSON}")).c)

\* createUser: c.Validate(&user) fails: c.Status(400).JSON(...)
HandlerCreateUserRejected ==
  /\ Running("createUser", "parsed")
  /\ Return(JSON(Status(ctx, 400), ErrValue("{error: validation}")).c)

\* createUser: c.Status(201).JSON(user)
HandlerCreateUserCreated ==
  /\ Running("createUser", "parsed")
  /\ Return(JSON(Status(ctx, 201), [ptr |-> FALSE, val |-> "{user}"]).c)

\* boom: panic(...)
HandlerBoom ==
  /\ Running("boom", "start")
  /\ Panic(ctx)

\* writeBoom: c.String(...)
HandlerWriteBoomWrite ==
  /\ Running("writeBoom", "start")
  /\ Goto(String(ctx, "partial"), "wrote")

\* writeBoom: panic(...)
HandlerWriteBoomPanic ==
  /\ Running("writeBoom", "wrote")
  /\ Panic(ctx)

\* ServeHTTP is over; the server waits for the next request
Finish ==
  /\ pc = "done"
  /\ pc' = "idle"
  /\ ctx' = NewContext(NoRequest)
  /\ mwIdx' = 0
  /\ handler' = NilHandler
  /\ hpc' = "none"
  /\ deferred' = <<>>
  /\ trace' = <<>>
  /\ outcome' = "none"
  /\ UNCHANGED <<routes, middleware, static, uses, probe, ext>>

\* the subsystems that take no part in a specification stay as they are here
SessOff ==
  /\ sessions = <<>>
  /\ heap = <<>>
  /\ smMutex = 0
  /\ issued = 0
  /\ stored = <<>>
  /\ gor = <<>>

RateOff ==
  /\ limiter = <<>>
  /\ now = 0
  /\ calls = <<>>

GroupOff == group = <<>>

WsOff ==
  /\ up = <<>>
  /\ conn = <<>>

MoreOff ==
  /\ validation = <<>>
  /\ auth = <<>>
  /\ hub = <<>>
  /\ timing = <<>>
  /\ sends = <<>>
  /\ accept = <<>>

ExtOff == SessOff /\ RateOff /\ GroupOff /\ WsOff /\ MoreOff

NoProbe ==
  [phase |-> "off", method |-> "", path |-> <<>>,
   result |-> [handler |-> NilHandler, params |-> EmptyMap, nil |-> TRUE]]

\* New(): nothing registered; the server waits for a request
AppNew ==
  /\ routes = <<>>
  /\ middleware = <<>>
  /\ static = {}
  /\ uses = <<>>
  /\ pc = "idle"
  /\ ctx = NewContext(NoRequest)
  /\ mwIdx = 0
  /\ handler = NilHandler
  /\ hpc = "none"
  /\ deferred = <<>>
  /\ trace = <<>>
  /\ outcome = "none"

Init ==
  /\ AppNew
  /\ probe = NoProbe
  /\ ExtOff

Next ==
  \/ \E m \in MiddlewareKinds : Use(m)
  \/ \E reg \in Registrations : Register(reg)
  \/ \E urlPath \in StaticPrefixes : Static(urlPath)
  \/ \E r \in Requests, fileExists \in BOOLEAN : ServeHTTPBegin(r, fileExists)
  \/ RunMiddleware
  \/ MatchRoute
  \/ HandlerShow
  \/ HandlerCreateUserRead
  \/ HandlerCreateUserInvalid
  \/ HandlerCreateUserRejected
  \/ HandlerCreateUserCreated
  \/ HandlerBoom
  \/ HandlerWriteBoomWrite
  \/ HandlerWriteBoomPanic
  \/ Finish

Spec == Init /\ [][Next]_vars

(***************************************************************************)
(* The Router driven alone: one Add, then one Match, both with any method  *)
(* and any string of at most MaxPathLen characters.                        *)
(***************************************************************************)
ProbeMethods == {"GET", "POST", "get"}

ProbeAdd(method, path) ==
  /\ probe.phase = "new"
  /\ routes' = Add(routes, method, path, "h")
  /\ probe' = [probe EXCEPT !.phase = "added"]
  /\ UNCHANGED <<middleware, static, uses, reqVars, ext>>

ProbeMatch(method, path) ==
  /\ probe.phase = "added"
  /\ probe' = [phase |-> "matched", method |-> method, path |-> path,
               result |-> Match(routes, method, path)]
  /\ UNCHANGED <<routes, middleware, static, uses, reqVars, ext>>

\* the App with nothing registered and no request served
AppOff ==
  /\ routes = <<>>
  /\ middleware = <<>>
  /\ static = {}
  /\ uses = <<>>
  /\ pc = "off"
  /\ ctx = NewContext(NoRequest)
  /\ mwIdx = 0
  /\ handler = NilHandler
  /\ hpc = "none"
  /\ deferred = <<>>
  /\ trace = <<>>
  /\ outcome = "none"

InitRouter ==
  /\ AppOff
  /\ probe = [NoProbe EXCEPT !.phase = "new"]
  /\ ExtOff

NextRouter ==
  \/ \E method \in ProbeMethods, path \in Strings : ProbeAdd(method, path)
  \/ \E method \in ProbeMethods, path \in Strings : ProbeMatch(method, path)

SpecRouter == InitRouter /\ [][NextRouter]_vars

(***************************************************************************)
(* What the specification says of paths, stated without Trim and Split:    *)
(* the segments of a path are the pieces between the slashes of the path   *)
(* without its leading and trailing slashes.                               *)
(***************************************************************************)
Min(S) == CHOOSE x \in S : \A y \in S : x <= y

Max(S) == CHOOSE x \in S : \A y \in S : x >= y

Core(s) ==
  LET keep == {i \in 1..Len(s) : s[i] # "/"}
  IN  IF keep = {} THEN <<>> ELSE SubSeq(s, Min(keep), Max(keep))

Cuts(s) == {0} \cup {i \in 1..Len(Core(s)) : Core(s)[i] = "/"} \cup {Len(Core(s)) + 1}

SegCount(s) == Cardinality(Cuts(s)) - 1

\* the k-th cut of s, k from 1
Cut(s, k) == CHOOSE b \in Cuts(s) : Cardinality({x \in Cuts(s) : x < b}) = k - 1

\* the k-th segment of s, k from 1
Seg(s, k) == SubSeq(Core(s), Cut(s, k) + 1, Cut(s, k + 1) - 1)

IsParamSeg(seg) == seg # <<>> /\ seg[1] = ":"

\* a route (method, template) matches a request (reqMethod, reqPath)
RouteMatches(method, template, reqMethod, reqPath) ==
  /\ method = reqMethod
  /\ SegCount(template) = SegCount(reqPath)
  /\ \A k \in 1..SegCount(template) :
       IsParamSeg(Seg(template, k)) \/ Seg(template, k) = Seg(reqPath, k)

(***************************************************************************)
(* What the client gets, and what happened to the request.                 *)
(***************************************************************************)
\* the status the client receives: net/http sends 200 when ServeHTTP
\* returns without having sent a status line
ClientStatus == IF ctx.Response.status = 0 THEN 200 ELSE ctx.Response.status

MiddlewareCalls == {i \in 1..Len(trace) : trace[i].idx > 0}

HandlerCalls == {i \in 1..Len(trace) : trace[i].call = "handler"}

ServedStatic == \E i \in 1..Len(trace) : trace[i].call = "static"

\* every registered middleware ran and returned true
AllContinued ==
  /\ ~ServedStatic
  /\ \A k \in 1..Len(middleware) :
       \E i \in MiddlewareCalls : trace[i].idx = k /\ trace[i].ret = "true"

\* the registered routes that match the request, by their index
Matching ==
  {i \in 1..Len(routes) :
     RouteMatches(routes[i].Method, routes[i].Path,
                  ctx.Request.Method, ctx.Request.Path)}

EmitterMode(c) == c.Request.Method = "GET" \/ c.Request.ContentLength = 0

(***************************************************************************)
(* C1. A middleware that returns false is the last thing that runs for the *)
(* request: no later middleware and no handler runs after it. When every   *)
(* registered middleware ran and returned true and a route matches, the    *)
(* handler has been called exactly once; no request calls it twice.        *)
(***************************************************************************)
C1_StopAndOnce ==
  /\ \A i \in MiddlewareCalls : trace[i].ret = "false" => i = Len(trace)
  /\ Cardinality(HandlerCalls) <= 1
  /\ (pc \in {"handler", "done"} /\ AllContinued /\ Matching # {})
       => Cardinality(HandlerCalls) = 1

\* the first of two middleware returned false on a request that a route matches
C1_Witness ==
  /\ pc = "done"
  /\ Len(middleware) = 2
  /\ Len(trace) = 1 /\ trace[1].idx = 1 /\ trace[1].ret = "false"
  /\ Matching # {}

(***************************************************************************)
(* C2. The middleware run in the order of their App.Use calls, each at     *)
(* most once per request: the i-th call of a request is the i-th           *)
(* registered middleware, and the handler is called after all of them.     *)
(***************************************************************************)
C2_RegistrationOrder ==
  /\ \A i \in MiddlewareCalls : trace[i].idx = i /\ trace[i].call = uses[i]
  /\ \A i \in HandlerCalls :
       /\ i = Len(trace)
       /\ i = Len(uses) + 1
       /\ MiddlewareCalls = 1..Len(uses)

\* two different middleware ran, then the handler was called
C2_Witness ==
  /\ pc = "handler"
  /\ Len(trace) = 3
  /\ trace[1].call # trace[2].call
  /\ trace[3].call = "handler"

(***************************************************************************)
(* C3. The handler ServeHTTP gets from Match is the handler of the         *)
(* earliest registered route among the routes that match the request.      *)
(***************************************************************************)
C3_FirstMatchWins ==
  pc = "handler" =>
    /\ Matching # {}
    /\ handler = routes[Min(Matching)].Handler

\* two routes with different handlers match, the later one has more literal
\* segments, the first one was taken
C3_Witness ==
  /\ pc = "handler"
  /\ Matching = {1, 2}
  /\ routes[1].Path = PathUserId /\ routes[2].Path = PathUserMe
  /\ routes[1].Handler # routes[2].Handler
  /\ handler = routes[1].Handler

(***************************************************************************)
(* C4. A registered route matches a request if and only if the methods are *)
(* equal, template and path have the same number of segments and every     *)
(* segment of the template that is no parameter equals the segment of the  *)
(* path at its position; without a match Match gives (nil, nil).           *)
(***************************************************************************)
C4_MatchIff ==
  probe.phase = "matched" =>
    /\ probe.result.handler # NilHandler
         <=> RouteMatches(routes[1].Method, routes[1].Path,
                          probe.method, probe.path)
    /\ probe.result.handler = NilHandler => probe.result.nil

\* a template of a literal and a parameter matched a path
C4_Witness ==
  /\ probe.phase = "matched"
  /\ probe.result.handler # NilHandler
  /\ SegCount(routes[1].Path) = 2
  /\ ~IsParamSeg(Seg(routes[1].Path, 1)) /\ Seg(routes[1].Path, 1) # <<>>
  /\ IsParamSeg(Seg(routes[1].Path, 2))

ParamPositions ==
  {k \in 1..Len(routes[1].Pattern.Segments) :
     routes[1].Pattern.Segments[k].IsParam}

ParamName(k) == routes[1].Pattern.Segments[k].Name

ProbeFound == probe.phase = "matched" /\ probe.result.handler # NilHandler

PathUsersId == <<"/", "u", "s", "e", "r", "s", "/", ":", "i", "d">>
PathUsersIdEdit == PathUsersId \o <<"/", "e", "d", "i", "t">>
PathUsers42 == <<"/", "u", "s", "e", "r", "s", "/", "4", "2">>

\* C5, the example: GET /users/42 against /users/:id gives {id: 42}, and
\* against /users/:id/edit no match
C5_Example ==
  /\ Match(Add(<<>>, "GET", PathUsersId, "h"), "GET", PathUsers42)
       = [handler |-> "h", params |-> [n \in {<<"i", "d">>} |-> <<"4", "2">>],
          nil |-> FALSE]
  /\ Match(Add(<<>>, "GET", PathUsersIdEdit, "h"), "GET", PathUsers42).handler
       = NilHandler

(***************************************************************************)
(* C5. A template of k segments compiles to k segments, those that start   *)
(* with ":" as parameters named by the rest, the others as literals.       *)
(***************************************************************************)
C5_Compiled ==
  probe.phase \in {"added", "matched"} =>
    LET t == routes[1].Path
        segs == routes[1].Pattern.Segments
    IN  /\ Len(segs) = SegCount(t)
        /\ \A k \in 1..Len(segs) :
             IF IsParamSeg(Seg(t, k))
             THEN segs[k].IsParam /\ segs[k].Name = Tail(Seg(t, k))
             ELSE ~segs[k].IsParam /\ segs[k].Value = Seg(t, k)

\* C5 as claimed: on a match every parameter segment's name is bound to the
\* path segment at that segment's position.
C5_BindsEachPosition ==
  /\ C5_Compiled
  /\ C5_Example
  /\ ProbeFound =>
       /\ DOMAIN probe.result.params = {ParamName(k) : k \in ParamPositions}
       /\ \A k \in ParamPositions :
            probe.result.params[ParamName(k)] = Seg(probe.path, k)

\* C5, amended: on a match the bindings hold exactly the parameter names
\* of the template, each bound to the path segment at the position of the last
\* parameter segment of that name (its own position when the names differ).
C5_BindsLastPosition ==
  /\ C5_Compiled
  /\ C5_Example
  /\ ProbeFound =>
       /\ DOMAIN probe.result.params = {ParamName(k) : k \in ParamPositions}
       /\ \A k \in ParamPositions :
            probe.result.params[ParamName(k)] =
              Seg(probe.path,
                  Max({j \in ParamPositions : ParamName(j) = ParamName(k)}))

\* a template of a literal and a parameter matched, and the parameter is
\* bound to the second segment of the path
C5_Witness ==
  /\ ProbeFound
  /\ ParamPositions = {2}
  /\ routes[1].Pattern.Segments[1].Value # <<>>
  /\ Seg(probe.path, 2) # <<>>
  /\ probe.result.params[ParamName(2)] = Seg(probe.path, 2)

(***************************************************************************)
(* C6. A request that no middleware stops and that no route matches is     *)
(* answered 404 with a JSON body carrying an error, and no handler runs.   *)
(***************************************************************************)
C6_NotFound ==
  (pc = "done" /\ AllContinued /\ Matching = {}) =>
    /\ HandlerCalls = {}
    /\ ClientStatus = 404
    /\ ctx.Response.contentType = "application/json"
    /\ ctx.Response.body = <<NotFound.val>>

\* the handler statements that are one c.JSON(v) and nothing else
JSONCall == HandlerShow \/ HandlerCreateUserRead

C8_DocumentedSequence ==
  (pc = "done" /\ handler = "createUser" /\ hpc = "returned"
     /\ ctx.Request.Method = "POST" /\ ctx.Request.ContentLength > 0) =>
    /\ ctx.statusCode \in {201, 400}
    /\ ClientStatus = ctx.statusCode
    /\ ctx.Response.contentType = "application/json"
    /\ Len(ctx.Response.body) = 1

\* a middleware or the handler panicked while serving this request
Panicked ==
  \/ hpc = "panicked"
  \/ \E i \in MiddlewareCalls : trace[i].ret = "panic"

(***************************************************************************)
(* C9. A panic of a middleware or of the handler does not leave ServeHTTP; *)
(* the client gets the 500 JSON answer unless a response was written       *)
(* before the panic.                                                       *)
(***************************************************************************)
C9_PanicIntercepted ==
  (pc = "done" /\ Panicked) =>
    /\ outcome # "left ServeHTTP"
    /\ \/ /\ ClientStatus = 500
          /\ ctx.Response.body = <<InternalServerError.val>>
       \/ /\ ctx.Response.body # <<>>
          /\ ctx.Response.body[1] # InternalServerError.val

\* Recovery ran for this request, and a later middleware or the handler panicked
PanickedAfterRecovery ==
  \E i \in MiddlewareCalls :
    /\ trace[i].call = "Recovery"
    /\ \/ hpc = "panicked"
       \/ \E j \in MiddlewareCalls : j > i /\ trace[j].ret = "panic"

(***************************************************************************)
(* C10. With Recovery() registered, a panic of a middleware registered     *)
(* after it or of the handler is recovered by Recovery, which answers 500  *)
(* if nothing was written.                                                 *)
(***************************************************************************)
C10_RecoveryRecovers ==
  (pc = "done" /\ PanickedAfterRecovery) =>
    /\ outcome = "recovered in Recovery"
    /\ \/ /\ ClientStatus = 500
          /\ ctx.Response.body = <<InternalServerError.val>>
       \/ /\ ctx.Response.body # <<>>
          /\ ctx.Response.body[1] # InternalServerError.val

(***************************************************************************)
(* Sessions: SessionManager.GetSession and the methods of Session, run by  *)
(* goroutines that each serve one request at a time. A Session is an       *)
(* object of the heap; the table and the goroutines hold its address.      *)
(***************************************************************************)
MaxTokens == 1   \* most session IDs generateSessionID produces

Goroutines == {1, 2}

\* the holder of SessionManager.mutex while the cleanup goroutine has it
Cleaner == Cardinality(Goroutines) + 1

\* session IDs: those a client makes up and those generateSessionID produces
ForgedIDs == {"t1"}

GeneratedIDs == <<"g1", "g2", "g3">>

AllIDs == {""} \cup ForgedIDs \cup {GeneratedIDs[i] : i \in 1..Len(GeneratedIDs)}

SessionKeys == {"k"}

SessionValues == {"v1", "v2"}

\* r.Cookie("session_id"): present is FALSE when it returns an error
NoCookie == [present |-> FALSE, Value |-> ""]

Cookies(ids) ==
  {NoCookie} \cup {[present |-> TRUE, Value |-> v] : v \in {""} \cup ids}

\* generateSessionID after n earlier calls: 32 bytes of crypto/rand, a value
\* that no request carries and no table entry has yet
generateSessionID(n) == GeneratedIDs[n + 1]

\* GetSession's test with a slip: only a missing cookie gets a new ID
NeedsNewID_ErrOnly(cookie) == ~cookie.present

\* `err != nil || cookie.Value == ""`
NeedsNewID(cookie) == ~cookie.present \/ cookie.Value = ""

\* `session, exists := sm.sessions[sessionID]` with a slip: never found
Exists_Never(tbl, id) == FALSE

\* `session, exists := sm.sessions[sessionID]`
Exists(tbl, id) == id \in DOMAIN tbl

\* &Session{id: sessionID, data: make(map[string]interface{}), ...}
NewSession(id) == [id |-> id, data |-> EmptyMap, mutex |-> [w |-> 0, r |-> {}]]

\* the methods of Session on the data map
SessionOps == {"Set", "Get", "Delete", "Clear", "Has", "Keys"}

NoResult == [value |-> "nil", ok |-> FALSE, keys |-> {}]

\* what the body of the method does between its lock and its unlock: the
\* data map afterwards and what the method returns
Access(data, op, key, value) ==
  CASE op = "Set"    -> [data |-> MapSet(data, key, value), result |-> NoResult]
    [] op = "Get"    -> [data |-> data,
                         result |-> [NoResult EXCEPT !.value =
                                       IF key \in DOMAIN data THEN data[key] ELSE "nil"]]
    [] op = "Delete" -> [data |-> [x \in (DOMAIN data) \ {key} |-> data[x]],
                         result |-> NoResult]
    [] op = "Clear"  -> [data |-> EmptyMap, result |-> NoResult]
    [] op = "Has"    -> [data |-> data,
                         result |-> [NoResult EXCEPT !.ok = key \in DOMAIN data]]
    [] op = "Keys"   -> [data |-> data, result |-> [NoResult EXCEPT !.keys = DOMAIN data]]

\* the lock of the method with a slip: every method takes the read lock
LockKind_AllRead(op) == "R"

\* the lock the method takes: s.mutex.Lock() or s.mutex.RLock()
LockKind(op) == IF op \in {"Set", "Delete", "Clear"} THEN "W" ELSE "R"

\* sync.RWMutex: can Lock() / RLock() return now
CanLock(mutex, kind) ==
  IF kind = "W" THEN mutex.w = 0 /\ mutex.r = {} ELSE mutex.w = 0

Acquire(mutex, kind, g) ==
  IF kind = "W" THEN [mutex EXCEPT !.w = g] ELSE [mutex EXCEPT !.r = @ \cup {g}]

Release(mutex, kind, g) ==
  IF kind = "W" THEN [mutex EXCEPT !.w = 0] ELSE [mutex EXCEPT !.r = @ \ {g}]

IdleGoroutine ==
  [pc |-> "idle", cookie |-> NoCookie, sessionID |-> "", setCookie |-> "",
   exists |-> FALSE, session |-> 0, op |-> "", key |-> "", val |-> "",
   result |-> NoResult]

notSess == <<appVars, rateVars, group, wsVars, moreVars>>

\* GetSession, lines 41-52: the cookie is read and the session ID chosen; a
\* new ID is written to the response with setSessionCookie
GetSessionBegin(g, cookie) ==
  /\ gor[g].pc = "idle"
  /\ IF NeedsNewID(cookie)
     THEN /\ issued < MaxTokens
          /\ issued' = issued + 1
          /\ gor' = [gor EXCEPT ![g] =
                       [@ EXCEPT !.pc = "gs_lock", !.cookie = cookie,
                                 !.sessionID = generateSessionID(issued),
                                 !.setCookie = generateSessionID(issued)]]
     ELSE /\ issued' = issued
          /\ gor' = [gor EXCEPT ![g] =
                       [@ EXCEPT !.pc = "gs_lock", !.cookie = cookie,
                                 !.sessionID = cookie.Value]]
  /\ UNCHANGED <<sessions, heap, smMutex, stored, notSess>>

\* GetSession with a slip: the table is entered without waiting for the lock
GetSessionLock_NoWait(g) ==
  /\ gor[g].pc = "gs_lock"
  /\ smMutex' = g
  /\ gor' = [gor EXCEPT ![g].pc = "gs_lookup"]
  /\ UNCHANGED <<sessions, heap, issued, stored, notSess>>

\* sm.mutex.Lock()
GetSessionLock(g) ==
  /\ gor[g].pc = "gs_lock"
  /\ smMutex = 0
  /\ smMutex' = g
  /\ gor' = [gor EXCEPT ![g].pc = "gs_lookup"]
  /\ UNCHANGED <<sessions, heap, issued, stored, notSess>>

\* session, exists := sm.sessions[sessionID]
GetSessionLookup(g) ==
  /\ gor[g].pc = "gs_lookup"
  /\ IF Exists(sessions, gor[g].sessionID)
     THEN gor' = [gor EXCEPT ![g] =
                    [@ EXCEPT !.pc = "gs_return", !.exists = TRUE,
                              !.session = sessions[gor[g].sessionID]]]
     ELSE gor' = [gor EXCEPT ![g] = [@ EXCEPT !.pc = "gs_insert", !.exists = FALSE]]
  /\ UNCHANGED <<sessions, heap, smMutex, issued, stored, notSess>>

\* if !exists: a new Session is allocated and put into the table
GetSessionInsert(g) ==
  /\ gor[g].pc = "gs_insert"
  /\ heap' = Append(heap, NewSession(gor[g].sessionID))
  /\ sessions' = MapSet(sessions, gor[g].sessionID, Len(heap) + 1)
  /\ gor' = [gor EXCEPT ![g] = [@ EXCEPT !.pc = "gs_return", !.session = Len(heap) + 1]]
  /\ UNCHANGED <<smMutex, issued, stored, notSess>>

\* return session: the deferred sm.mutex.Unlock() runs
GetSessionReturn(g) ==
  /\ gor[g].pc = "gs_return"
  /\ smMutex' = 0
  /\ gor' = [gor EXCEPT ![g] = [@ EXCEPT !.pc = "ready", !.cookie = NoCookie,
                                         !.exists = FALSE]]
  /\ UNCHANGED <<sessions, heap, issued, stored, notSess>>

\* the handler of the request calls a method of its session, which takes
\* s.mutex.Lock() or s.mutex.RLock(); the call waits until the lock is free
SessionLock(g, op, key, value) ==
  /\ gor[g].pc = "ready"
  /\ LET a == gor[g].session
         kind == LockKind(op)
     IN  /\ CanLock(heap[a].mutex, kind)
         /\ heap' = [heap EXCEPT ![a].mutex = Acquire(@, kind, g)]
  /\ gor' = [gor EXCEPT ![g] = [@ EXCEPT !.pc = "op_access", !.op = op, !.key = key,
                                         !.val = value]]
  /\ UNCHANGED <<sessions, smMutex, issued, stored, notSess>>

\* what the session's requests stored, kept apart from the data map: a Set
\* stores, a Delete drops the key, a Clear drops every key
Remembered(m, op, key, value) ==
  LET keys == {x \in (DOMAIN m) \cup (IF op = "Set" THEN {key} ELSE {}) :
                 /\ op # "Clear"
                 /\ ~(op = "Delete" /\ x = key)}
  IN  [x \in keys |-> IF op = "Set" /\ x = key THEN value ELSE m[x]]

\* the body of the method: the access to s.data
SessionAccess(g) ==
  /\ gor[g].pc = "op_access"
  /\ LET a == gor[g].session
         res == Access(heap[a].data, gor[g].op, gor[g].key, gor[g].val)
     IN  /\ heap' = [heap EXCEPT ![a].data = res.data]
         /\ gor' = [gor EXCEPT ![g] =
                      [@ EXCEPT !.pc = "op_unlock", !.result = res.result]]
  /\ stored' = [stored EXCEPT ![gor[g].sessionID] =
                  Remembered(@, gor[g].op, gor[g].key, gor[g].val)]
  /\ UNCHANGED <<sessions, smMutex, issued, notSess>>

\* the method returns: s.mutex.Unlock() or s.mutex.RUnlock()
SessionUnlock(g) ==
  /\ gor[g].pc = "op_unlock"
  /\ LET a == gor[g].session
     IN  heap' = [heap EXCEPT ![a].mutex = Release(@, LockKind(gor[g].op), g)]
  /\ gor' = [gor EXCEPT ![g] = [@ EXCEPT !.pc = "ready", !.op = "", !.key = "",
                                         !.val = "", !.result = NoResult]]
  /\ UNCHANGED <<sessions, smMutex, issued, stored, notSess>>

\* the request is over
RequestEnd(g) ==
  /\ gor[g].pc = "ready"
  /\ gor' = [gor EXCEPT ![g] = IdleGoroutine]
  /\ UNCHANGED <<sessions, heap, smMutex, issued, stored, notSess>>

\* cleanup: the ticker fires, sm.mutex.Lock()
CleanupLock ==
  /\ smMutex = 0
  /\ smMutex' = Cleaner
  /\ UNCHANGED <<sessions, heap, issued, stored, gor, notSess>>

\* cleanup with the eviction its comment intends: the table is emptied
CleanupUnlock_Evict ==
  /\ smMutex = Cleaner
  /\ smMutex' = 0
  /\ sessions' = EmptyMap
  /\ UNCHANGED <<heap, issued, stored, gor, notSess>>

\* cleanup: nothing is removed, sm.mutex.Unlock()
CleanupUnlock ==
  /\ smMutex = Cleaner
  /\ smMutex' = 0
  /\ UNCHANGED <<sessions, heap, issued, stored, gor, notSess>>

\* NewSessionManager: an empty table
InitSessions ==
  /\ AppOff
  /\ probe = NoProbe
  /\ sessions = EmptyMap
  /\ heap = <<>>
  /\ smMutex = 0
  /\ issued = 0
  /\ stored = [id \in AllIDs |-> EmptyMap]
  /\ gor = [g \in Goroutines |-> IdleGoroutine]
  /\ RateOff
  /\ GroupOff
  /\ WsOff
  /\ MoreOff

\* the values a call of the method takes
CallValues(op) == IF op = "Set" THEN SessionValues ELSE {""}

CallKeys(op) == IF op \in {"Clear", "Keys"} THEN {""} ELSE SessionKeys

\* the generated IDs that reached a client: the Set-Cookie header leaves
\* with the response, after GetSession has returned
Delivered ==
  {id \in DOMAIN sessions :
     \A g \in Goroutines :
       gor[g].setCookie = id => gor[g].pc \notin {"gs_lock", "gs_lookup", "gs_insert", "gs_return"}}

NextSessions ==
  \/ \E g \in Goroutines, cookie \in Cookies(ForgedIDs \cup Delivered) :
       GetSessionBegin(g, cookie)
  \/ \E g \in Goroutines : GetSessionLock(g)
  \/ \E g \in Goroutines : GetSessionLookup(g)
  \/ \E g \in Goroutines : GetSessionInsert(g)
  \/ \E g \in Goroutines : GetSessionReturn(g)
  \/ \E g \in Goroutines, op \in SessionOps :
       \E key \in CallKeys(op), value \in CallValues(op) : SessionLock(g, op, key, value)
  \/ \E g \in Goroutines : SessionAccess(g)
  \/ \E g \in Goroutines : SessionUnlock(g)
  \/ \E g \in Goroutines : RequestEnd(g)
  \/ CleanupLock
  \/ CleanupUnlock

SpecSessions == InitSessions /\ [][NextSessions]_vars

\* the goroutines that are past GetSession's lookup and hold sm.mutex
Returning(g) == gor[g].pc = "gs_return"

\* C11: GetSession gives a request without a session_id cookie, or with an
\* empty one, a newly generated ID, writes it as a cookie and stores an empty
\* session under it; a request with a cookie gets the session stored under
\* the cookie's value, or an empty one created under that same value if the
\* table had none, and no cookie is written.
C11_GetSession ==
  \A g \in Goroutines :
    Returning(g) =>
      LET c == gor[g].cookie
          id == gor[g].sessionID
          a == gor[g].session
      IN  /\ id \in DOMAIN sessions
          /\ sessions[id] = a
          /\ heap[a].id = id
          /\ IF ~c.present \/ c.Value = ""
             THEN /\ id # ""
                  /\ gor[g].setCookie = id
                  /\ ~gor[g].exists
                  /\ heap[a].data = EmptyMap
                  /\ \A h \in Goroutines \ {g} : gor[h].sessionID # id
             ELSE /\ id = c.Value
                  /\ gor[g].setCookie = ""
                  /\ ~gor[g].exists => heap[a].data = EmptyMap
                  /\ gor[g].exists => heap[a].data = stored[id]

C11_Witness ==
  \E g, h \in Goroutines :
    /\ Returning(g)
    /\ gor[g].cookie.present
    /\ gor[g].cookie.Value = "g1"
    /\ gor[g].exists
    /\ stored["g1"] # EmptyMap
    /\ gor[h].pc = "gs_lock"
    /\ gor[h].cookie.present
    /\ gor[h].sessionID = "t1"
    /\ ~Exists(sessions, "t1")

\* the goroutines that hold a session: GetSession has returned it
Holding(g) == gor[g].pc \in {"ready", "op_access", "op_unlock"}

\* what Get(key) has to return according to what was stored under the ID
Expected(id, key) == IF key \in DOMAIN stored[id] THEN stored[id][key] ELSE "nil"

\* C12: after Set(k, v) on the session of ID T, Get(k) in any later request
\* carrying T returns v, until a Delete of k, a Clear or another Set of k; the
\* session a request holds is the one of its own ID and holds only what was
\* stored under that ID, so a request with another ID, or with a new one,
\* does not see the value.
C12_RoundTrip ==
  /\ \A g \in Goroutines :
       (gor[g].pc = "op_unlock" /\ gor[g].op = "Get") =>
          gor[g].result.value = Expected(gor[g].sessionID, gor[g].key)
  /\ \A g \in Goroutines :
       Holding(g) =>
          /\ heap[gor[g].session].id = gor[g].sessionID
          /\ heap[gor[g].session].data = stored[gor[g].sessionID]
  /\ \A id1, id2 \in DOMAIN sessions : id1 # id2 => sessions[id1] # sessions[id2]

C12_Witness ==
  \E g \in Goroutines :
    /\ gor[g].pc = "op_unlock"
    /\ gor[g].op = "Get"
    /\ gor[g].result.value = "v2"
    /\ gor[g].sessionID = "g1"
    /\ gor[g].setCookie = ""
    /\ "t1" \in DOMAIN sessions
    /\ stored["t1"] = EmptyMap

\* does the method change the data map of some session
Mutates(op) ==
  \E key \in SessionKeys, value \in SessionValues :
    \E data \in {EmptyMap, MapSet(EmptyMap, key, value)} :
      \E v2 \in SessionValues : Access(data, op, key, v2).data # data

Accessing(g) == gor[g].pc = "op_access"

\* C13: no goroutine reads or writes the data of a session while another
\* goroutine is writing it: the writing methods hold the write lock and the
\* reading methods the read lock from before the access until after it.
C13_NoRace ==
  /\ \A g, h \in Goroutines :
       (g # h /\ Accessing(g) /\ Accessing(h) /\ gor[g].session = gor[h].session)
          => ~Mutates(gor[g].op) /\ ~Mutates(gor[h].op)
  /\ \A g \in Goroutines :
       gor[g].pc \in {"op_access", "op_unlock"} =>
          LET mutex == heap[gor[g].session].mutex
          IN  IF gor[g].op \in {"Set", "Delete", "Clear"}
              THEN mutex.w = g /\ mutex.r = {}
              ELSE mutex.w = 0 /\ g \in mutex.r

C13_Witness ==
  \E g, h \in Goroutines :
    /\ g # h
    /\ Accessing(g)
    /\ gor[g].op = "Set"
    /\ gor[h].pc = "ready"
    /\ gor[h].session = gor[g].session
    /\ ~CanLock(heap[gor[h].session].mutex, "R")
    /\ stored[gor[g].sessionID] # EmptyMap

(***************************************************************************)
(* RateLimit(requestsPerMinute): the middleware alone, called for the      *)
(* requests of a few clients while the clock advances. The clock counts    *)
(* ticks; time.Minute is Minute ticks.                                     *)
(***************************************************************************)
Minute == 2      \* time.Minute, in ticks of the model's clock
MaxLimit == 2    \* largest requestsPerMinute the middleware is built with
MaxTime == 4     \* the clock stops here
MaxBurst == 4    \* most requests one client sends inside one window

\* the keys c.IP() gives: r.RemoteAddr of requests that carry neither
\* X-Forwarded-For nor X-Real-IP
RemoteAddrs == {"10.0.0.1", "10.0.0.2"}

\* Context.IP
IP(c) == c.Request.RemoteAddr

RateRequests ==
  { [Method |-> sh.Method, Path |-> PathUsers, ContentLength |-> sh.ContentLength,
     Body |-> sh.Body, RemoteAddr |-> a] : sh \in RequestShapes, a \in RemoteAddrs }

\* strconv.Itoa / strconv.FormatInt(n, 10): the decimal digits of n
DigitChars == <<"0", "1", "2", "3", "4", "5", "6", "7", "8", "9">>

RECURSIVE Itoa(_)
Itoa(n) ==
  IF n < 0 THEN <<"-">> \o Itoa(0 - n)
  ELSE IF n < 10 THEN <<DigitChars[n + 1]>>
  ELSE Itoa(n \div 10) \o <<DigitChars[(n % 10) + 1]>>

\* the loop over the clients map: an entry goes if now.After(v.reset)
Sweep(cls, t) == [k \in {k \in DOMAIN cls : ~(t > cls[k].reset)} |-> cls[k]]

\* the limit check with a slip: one request too many passes
OverLimit_Late(requests, requestsPerMinute) == requests > requestsPerMinute

\* `cl.requests >= requestsPerMinute`
OverLimit(requests, requestsPerMinute) == requests >= requestsPerMinute

\* the middleware RateLimit returns, called at time t on the context c with
\* the clients map cls: gives the map, the context and the return value
RateLimit(requestsPerMinute, cls, t, c) ==
  LET ip == IP(c)
      swept == Sweep(cls, t)
      cls1 == IF ip \in DOMAIN swept
              THEN swept
              ELSE MapSet(swept, ip, [requests |-> 0, reset |-> t + Minute])
      cl == cls1[ip]
  IN  IF OverLimit(cl.requests, requestsPerMinute)
      THEN [clients |-> cls1,
            c |-> JSON(Status(c, 429), ErrValue("{error: Rate limit exceeded}")).c,
            ret |-> "false"]
      ELSE LET cl1 == [cl EXCEPT !.requests = @ + 1]
               c1 == Header(c, "X-RateLimit-Limit", Itoa(requestsPerMinute))
               c2 == Header(c1, "X-RateLimit-Remaining",
                            Itoa(requestsPerMinute - cl1.requests))
               c3 == Header(c2, "X-RateLimit-Reset", Itoa(cl1.reset))
           IN  [clients |-> MapSet(cls1, ip, cl1), c |-> c3, ret |-> "true"]

notRate == <<routes, middleware, static, uses, pc, mwIdx, handler, hpc, deferred, trace,
             outcome, probe, sessVars, group, wsVars, moreVars>>

\* each client's running window as the requests define it: it starts with
\* the client's first request after the reset time of the window before,
\* lasts Minute and counts the client's requests
Window(w, t) ==
  IF w.seen = 0 \/ t > w.start + Minute
  THEN [start |-> t, seen |-> 1]
  ELSE [w EXCEPT !.seen = @ + 1]

NoCall == [ip |-> "", ret |-> "none", at |-> 0]

\* a request reaches the middleware: NewContext, then the call under mu
RateLimitCall(r) ==
  /\ Window(calls.window[r.RemoteAddr], now).seen <= MaxBurst
  /\ LET res == RateLimit(limiter.requestsPerMinute, limiter.clients, now, NewContext(r))
     IN  /\ limiter' = [limiter EXCEPT !.clients = res.clients]
         /\ ctx' = res.c
         /\ calls' = [window |-> [calls.window EXCEPT ![r.RemoteAddr] = Window(@, now)],
                      last |-> [ip |-> r.RemoteAddr, ret |-> res.ret, at |-> now]]
  /\ UNCHANGED <<now, notRate>>

\* time passes
Tick ==
  /\ now < MaxTime
  /\ now' = now + 1
  /\ UNCHANGED <<limiter, calls, ctx, notRate>>

\* RateLimit(n) is built: an empty clients map
InitRate ==
  /\ AppOff
  /\ probe = NoProbe
  /\ SessOff
  /\ \E n \in 1..MaxLimit : limiter = [requestsPerMinute |-> n, clients |-> EmptyMap]
  /\ now = 0
  /\ calls = [window |-> [a \in RemoteAddrs |-> [start |-> 0, seen |-> 0]], last |-> NoCall]
  /\ GroupOff
  /\ WsOff
  /\ MoreOff

NextRate ==
  \/ \E r \in RateRequests : RateLimitCall(r)
  \/ Tick

SpecRate == InitRate /\ [][NextRate]_vars

\* the last call of the middleware, its client's window and the limit
Called == calls.last.ret # "none"

Seen == calls.window[calls.last.ip].seen

Limit == limiter.requestsPerMinute

\* the number a string of decimal digits stands for
DigitValue(ch) == CHOOSE d \in 0..9 : DigitChars[d + 1] = ch

RECURSIVE DecimalValue(_)
DecimalValue(s) ==
  IF s = <<>> THEN 0
  ELSE IF Head(s) = "-" THEN 0 - DecimalValue(Tail(s))
  ELSE DigitValue(s[Len(s)]) + 10 * DecimalValue(SubSeq(s, 1, Len(s) - 1))

\* the counting alone: the first requestsPerMinute requests of a window are
\* let through, the later ones are stopped with the context's status at 429
RateLimitCounts ==
  Called =>
    /\ Seen <= Limit => calls.last.ret = "true"
    /\ Seen > Limit => calls.last.ret = "false" /\ ctx.statusCode = 429

\* C14: for one client, exactly the first N requests inside a window pass
\* RateLimit(N), every further request inside the window is stopped and
\* answered with status 429, and the first request after the window's reset
\* time starts a new window and passes.
C14_WindowOfN ==
  Called =>
    /\ Seen <= Limit => calls.last.ret = "true"
    /\ Seen > Limit => calls.last.ret = "false" /\ ClientStatus = 429

\* C15: every request that went through RateLimit(N), let through or
\* stopped, carries X-RateLimit-Limit, X-RateLimit-Remaining and
\* X-RateLimit-Reset; Remaining is N minus the client's count in the running
\* window and never negative.
C15_Headers ==
  Called =>
    LET h == ctx.Response.header
        count == IF Seen <= Limit THEN Seen ELSE Limit
    IN  /\ {"X-RateLimit-Limit", "X-RateLimit-Remaining", "X-RateLimit-Reset"}
             \subseteq DOMAIN h
        /\ DecimalValue(h["X-RateLimit-Limit"]) = Limit
        /\ DecimalValue(h["X-RateLimit-Remaining"]) = Limit - count
        /\ DecimalValue(h["X-RateLimit-Remaining"]) >= 0

(***************************************************************************)
(* Route groups: App.Group, RouteGroup.Get and RouteGroup.Use, with the    *)
(* pipeline of ServeHTTP serving the requests. The history group keeps     *)
(* what was registered through the group: the positions in App.middleware  *)
(* and in Router.routes.                                                   *)
(***************************************************************************)
\* app.Group(prefix)
GroupPrefix == <<"/", "u">>

PathId == <<"/", ":", "i", "d">>

PathX == <<"/", "x">>

\* the routes registered through the group, and on the app beside it
GroupRegistrations == { [Method |-> "GET", Path |-> PathId, Handler |-> "show"] }

OutsideRegistrations == { [Method |-> "GET", Path |-> PathX, Handler |-> "show"] }

\* the middleware given to RouteGroup.Use and to App.Use
GroupMiddleware == {"BasicAuth", "Secure"}

OutsideMiddleware == {"Secure"}

NoGroup == [uses |-> {}, routes |-> {}]

notGroup == <<sessVars, rateVars, wsVars, moreVars>>

\* RouteGroup.Use: g.app.Use(middleware)
GroupUse(m) ==
  /\ Idle
  /\ Len(middleware) < MaxMiddleware
  /\ middleware' = Append(middleware, m)
  /\ uses' = Append(uses, m)
  /\ group' = [group EXCEPT !.uses = @ \cup {Len(middleware) + 1}]
  /\ UNCHANGED <<routes, static, reqVars, probe, notGroup>>

\* RouteGroup.Get: g.app.Get(g.prefix+path, handler)
GroupRegister(reg) ==
  /\ Idle
  /\ Len(routes) < MaxRoutes
  /\ routes' = Add(routes, reg.Method, GroupPrefix \o reg.Path, reg.Handler)
  /\ group' = [group EXCEPT !.routes = @ \cup {Len(routes) + 1}]
  /\ UNCHANGED <<middleware, static, uses, reqVars, probe, notGroup>>

InitGroup ==
  /\ AppNew
  /\ probe = NoProbe
  /\ SessOff
  /\ RateOff
  /\ group = NoGroup
  /\ WsOff
  /\ MoreOff

NextGroup ==
  \/ \E m \in OutsideMiddleware : Use(m)
  \/ \E m \in GroupMiddleware : GroupUse(m)
  \/ \E reg \in OutsideRegistrations : Register(reg)
  \/ \E reg \in GroupRegistrations : GroupRegister(reg)
  \/ \E r \in Requests : ServeHTTPBegin(r, FALSE)
  \/ RunMiddleware
  \/ MatchRoute
  \/ HandlerShow
  \/ Finish

SpecGroup == InitGroup /\ [][NextGroup]_vars

\* the request being served is for a route registered outside the group
ForOutsideRoute == pc # "idle" /\ Matching # {} /\ Min(Matching) \notin group.routes

\* C16: middleware added through RouteGroup.Use applies to the routes of the
\* group only: a request for a route registered on the app outside the group
\* is served without that middleware being run.
C16_GroupMiddleware ==
  ForOutsideRoute => \A i \in MiddlewareCalls : trace[i].idx \notin group.uses

\* the middleware calls of the request are those of the first n registered
\* middleware, in their order
RanFirst(n) ==
  /\ Cardinality(MiddlewareCalls) = n
  /\ \A k \in 1..n : \E i \in MiddlewareCalls :
       /\ trace[i].idx = k
       /\ Cardinality({j \in MiddlewareCalls : j < i}) = k - 1

\* no middleware of the request stopped it or panicked
NoneStopped == \A i \in MiddlewareCalls : trace[i].ret = "true"

\* C17: a request passes the static-file check, the middleware pipeline, the
\* router match, the parameter injection and the handler in this order: one
\* answered from a static directory runs no middleware and no handler; the
\* router is consulted, the parameters are set and the handler is called
\* only after every middleware has run; a request that no route matches has
\* run the whole pipeline before its 404.
C17_PhaseOrder ==
  /\ ServedStatic =>
       /\ pc = "done"
       /\ trace = <<Event("static", 0, "served")>>
       /\ handler = NilHandler
  /\ pc = "middleware" =>
       /\ RanFirst(mwIdx - 1)
       /\ NoneStopped
       /\ HandlerCalls = {}
       /\ handler = NilHandler
       /\ ctx.params = EmptyMap
  /\ HandlerCalls # {} =>
       /\ RanFirst(Len(middleware))
       /\ NoneStopped
       /\ HandlerCalls = {Len(trace)}
       /\ handler = Match(routes, ctx.Request.Method, ctx.Request.Path).handler
       /\ ctx.params = Match(routes, ctx.Request.Method, ctx.Request.Path).params
  /\ (pc = "done" /\ ~ServedStatic /\ NoneStopped /\ Matching = {}) =>
       /\ RanFirst(Len(middleware))
       /\ HandlerCalls = {}
       /\ ctx.statusCode = 404

C17_Witness ==
  /\ ServedStatic
  /\ Len(middleware) = MaxMiddleware
  /\ Matching # {}
  /\ ctx.Request.Path = <<"/", "u", "/", "7">>

(***************************************************************************)
(* calculateAcceptKey computed: strings as sequences of characters, bytes  *)
(* as numbers 0..255, 32-bit words as sequences of 32 bits, the most       *)
(* significant bit first.                                                  *)
(***************************************************************************)
\* the alphabet of base64.StdEncoding
Base64Alphabet ==
  <<"A", "B", "C", "D", "E", "F", "G", "H", "I", "J", "K", "L", "M", "N", "O", "P",
    "Q", "R", "S", "T", "U", "V", "W", "X", "Y", "Z", "a", "b", "c", "d", "e", "f",
    "g", "h", "i", "j", "k", "l", "m", "n", "o", "p", "q", "r", "s", "t", "u", "v",
    "w", "x", "y", "z", "0", "1", "2", "3", "4", "5", "6", "7", "8", "9", "+", "/">>

\* []byte(s): the ASCII code of each character
Ord(ch) ==
  CASE ch = "+" -> 43
    [] ch = "-" -> 45
    [] ch = "/" -> 47
    [] ch = "=" -> 61
    [] OTHER ->
         LET i == CHOOSE k \in 1..62 : Base64Alphabet[k] = ch
         IN  IF i <= 26 THEN 64 + i ELSE IF i <= 52 THEN 70 + i ELSE i - 5

Bytes(s) == [i \in 1..Len(s) |-> Ord(s[i])]

\* 2^n
Pow2(n) ==
  <<1, 2, 4, 8, 16, 32, 64, 128, 256, 512, 1024, 2048, 4096, 8192, 16384, 32768, 65536,
    131072, 262144, 524288, 1048576, 2097152, 4194304, 8388608, 16777216>>[n + 1]

\* x ^ y, x & y and x | y on the low bits of two numbers, bit by bit
RECURSIVE XorBit(_, _, _)
XorBit(x, y, bits) ==
  IF bits = 0 THEN 0
  ELSE ((x + y) % 2) + 2 * XorBit(x \div 2, y \div 2, bits - 1)

RECURSIVE AndBit(_, _, _)
AndBit(x, y, bits) ==
  IF bits = 0 THEN 0
  ELSE ((x % 2) * (y % 2)) + 2 * AndBit(x \div 2, y \div 2, bits - 1)

RECURSIVE OrBit(_, _, _)
OrBit(x, y, bits) ==
  IF bits = 0 THEN 0
  ELSE (IF (x % 2) + (y % 2) > 0 THEN 1 ELSE 0) + 2 * OrBit(x \div 2, y \div 2, bits - 1)

\* the same on 4 bits, as tables
XorTable == [x \in 0..15 |-> [y \in 0..15 |-> XorBit(x, y, 4)]]

AndTable == [x \in 0..15 |-> [y \in 0..15 |-> AndBit(x, y, 4)]]

OrTable == [x \in 0..15 |-> [y \in 0..15 |-> OrBit(x, y, 4)]]

\* a table applied to each group of 4 bits of two numbers below 2^16
ByNibbles(table, x, y) ==
  table[x % 16][y % 16]
    + 16 * table[(x \div 16) % 16][(y \div 16) % 16]
    + 256 * table[(x \div 256) % 16][(y \div 256) % 16]
    + 4096 * table[(x \div 4096) % 16][(y \div 4096) % 16]

\* x ^ y on the low bits (8 or 16) of two numbers
XorBits(x, y, bits) == ByNibbles(XorTable, x % Pow2(bits), y % Pow2(bits))

\* the uint32 at byte offset off (big-endian), as its two 16-bit halves
WordAt(bytes, off) ==
  <<256 * bytes[off + 1] + bytes[off + 2], 256 * bytes[off + 3] + bytes[off + 4]>>

WordXor(x, y) == <<ByNibbles(XorTable, x[1], y[1]), ByNibbles(XorTable, x[2], y[2])>>

WordAnd(x, y) == <<ByNibbles(AndTable, x[1], y[1]), ByNibbles(AndTable, x[2], y[2])>>

WordOr(x, y) == <<ByNibbles(OrTable, x[1], y[1]), ByNibbles(OrTable, x[2], y[2])>>

WordNot(x) == <<65535 - x[1], 65535 - x[2]>>

\* bits.RotateLeft32(x, n), 0 < n < 32
Rotl(x, n) ==
  LET hi == IF n < 16 THEN x[1] ELSE x[2]
      lo == IF n < 16 THEN x[2] ELSE x[1]
      k == n % 16
  IN  <<(hi % Pow2(16 - k)) * Pow2(k) + (lo \div Pow2(16 - k)),
        (lo % Pow2(16 - k)) * Pow2(k) + (hi \div Pow2(16 - k))>>

\* x + y on uint32: the carry out of the 32nd bit is dropped
WordAdd(x, y) ==
  <<(x[1] + y[1] + ((x[2] + y[2]) \div 65536)) % 65536, (x[2] + y[2]) % 65536>>

\* the bytes of a sequence of words
WordBytes(words) ==
  [i \in 1..(4 * Len(words)) |->
     LET half == words[((i - 1) \div 4) + 1][(((i - 1) % 4) \div 2) + 1]
     IN  IF i % 2 = 1 THEN half \div 256 ELSE half % 256]

\* SHA-1 padding: 0x80, zeros up to 56 mod 64, the length in bits on 8 bytes
Sha1Pad(msg) ==
  LET zeros == (119 - (Len(msg) % 64)) % 64
      bits == 8 * Len(msg)
  IN  msg \o <<128>> \o [i \in 1..zeros |-> 0]
          \o <<0, 0, 0, 0, (bits \div 16777216) % 256, (bits \div 65536) % 256,
               (bits \div 256) % 256, bits % 256>>

\* the message schedule of a block extended by n more words; the words are
\* produced in order, the first half of them before the second
RECURSIVE Sha1Schedule(_, _)
Sha1Schedule(w, n) ==
  IF Len(w) = 0 \/ n = 0 THEN w
  ELSE IF n = 1
  THEN LET t == Len(w) + 1
       IN  Append(w, Rotl(WordXor(WordXor(w[t - 3], w[t - 8]),
                                  WordXor(w[t - 14], w[t - 16])), 1))
  ELSE Sha1Schedule(Sha1Schedule(w, n \div 2), n - (n \div 2))

\* the round function and constant of round t (0..79)
Sha1F(t, b, c, d) ==
  IF t < 20 THEN WordOr(WordAnd(b, c), WordAnd(WordNot(b), d))
  ELSE IF t < 40 THEN WordXor(WordXor(b, c), d)
  ELSE IF t < 60 THEN WordOr(WordOr(WordAnd(b, c), WordAnd(b, d)), WordAnd(c, d))
  ELSE WordXor(WordXor(b, c), d)

Sha1K(t) ==
  WordAt(IF t < 20 THEN <<90, 130, 121, 153>>
         ELSE IF t < 40 THEN <<110, 217, 235, 161>>
         ELSE IF t < 60 THEN <<143, 27, 188, 220>>
         ELSE <<202, 98, 193, 214>>, 0)

\* n rounds on the working variables a, b, c, d, e, from round v.t on; the
\* rounds are made in order, the first half of them before the second
RECURSIVE Sha1Rounds(_, _, _)
Sha1Rounds(v, w, n) ==
  IF v.t < 0 \/ n = 0 THEN v
  ELSE IF n = 1
  THEN LET temp == WordAdd(WordAdd(WordAdd(WordAdd(Rotl(v.a, 5),
                                                   Sha1F(v.t, v.b, v.c, v.d)),
                                           v.e), Sha1K(v.t)), w[v.t + 1])
       IN  [a |-> temp, b |-> v.a, c |-> Rotl(v.b, 30), d |-> v.c, e |-> v.d,
            t |-> v.t + 1]
  ELSE Sha1Rounds(Sha1Rounds(v, w, n \div 2), w, n - (n \div 2))

\* the digest state after the blocks from byte offset off on
RECURSIVE Sha1Blocks(_, _, _)
Sha1Blocks(h, padded, off) ==
  IF Len(h) = 0 \/ off >= Len(padded) THEN h
  ELSE LET w == Sha1Schedule([i \in 1..16 |-> WordAt(padded, off + 4 * (i - 1))], 64)
           v0 == [a |-> h[1], b |-> h[2], c |-> h[3], d |-> h[4], e |-> h[5], t |-> 0]
           v == IF Len(w) = 80 THEN Sha1Rounds(v0, w, 80) ELSE v0
       IN  Sha1Blocks(<<WordAdd(h[1], v.a), WordAdd(h[2], v.b), WordAdd(h[3], v.c),
                        WordAdd(h[4], v.d), WordAdd(h[5], v.e)>>, padded, off + 64)

Sha1Init ==
  <<WordAt(<<103, 69, 35, 1>>, 0), WordAt(<<239, 205, 171, 137>>, 0),
    WordAt(<<152, 186, 220, 254>>, 0), WordAt(<<16, 50, 84, 118>>, 0),
    WordAt(<<195, 210, 225, 240>>, 0)>>

\* sha1: h.Write(msg); h.Sum(nil)
Sha1(msg) == WordBytes(Sha1Blocks(Sha1Init, Sha1Pad(msg), 0))

\* base64.StdEncoding.EncodeToString: each 3 bytes give 4 characters of 6
\* bits; a last group of 1 or 2 bytes gives 2 or 3 characters and "="
RECURSIVE Base64(_)
Base64(bytes) ==
  LET n == Len(bytes)
      quantum == 65536 * bytes[1] + 256 * (IF n > 1 THEN bytes[2] ELSE 0)
               + (IF n > 2 THEN bytes[3] ELSE 0)
      digit(k) == Base64Alphabet[((quantum \div Pow2(24 - 6 * k)) % 64) + 1]
  IN  IF n = 0 THEN <<>>
      ELSE IF n = 1 THEN <<digit(1), digit(2), "=", "=">>
      ELSE IF n = 2 THEN <<digit(1), digit(2), digit(3), "=">>
      ELSE <<digit(1), digit(2), digit(3), digit(4)>> \o Base64(SubSeq(bytes, 4, n))

(***************************************************************************)
(* Context.Upgrade: the WebSocket handshake, called by the handler of a    *)
(* request, and the goroutine it starts for the WebSocketHandler.          *)
(***************************************************************************)
\* the request headers Upgrade reads
ConnectionValues == {"Upgrade", "keep-alive", "keep-alive, Upgrade"}

UpgradeValues == {"websocket", "WebSocket", ""}

\* the key of the handshake example of RFC 6455
SampleKey ==
  <<"d", "G", "h", "l", "I", "H", "N", "h", "b", "X", "B", "s", "Z", "S", "B", "u",
    "b", "2", "5", "j", "Z", "Q", "=", "=">>

KeyValues == {SampleKey, <<>>}

UpgradeRequests ==
  { [Method |-> sh.Method, Path |-> PathX, ContentLength |-> sh.ContentLength,
     Body |-> sh.Body, Connection |-> cn, Upgrade |-> upg, SecWebSocketKey |-> key] :
       sh \in RequestShapes, cn \in ConnectionValues, upg \in UpgradeValues,
       key \in KeyValues }

\* what the server and the connection do to the call: whether the
\* ResponseWriter is an http.Hijacker, and whether Hijack, bufrw.Write and
\* bufrw.Flush fail
Environments ==
  [hijacker : BOOLEAN, hijackErr : BOOLEAN, writeErr : BOOLEAN, flushErr : BOOLEAN]

\* "258EAFA5-E914-47DA-95CA-C5AB0DC85B11"
websocketMagicString ==
  <<"2", "5", "8", "E", "A", "F", "A", "5", "-", "E", "9", "1", "4", "-", "4", "7",
    "D", "A", "-", "9", "5", "C", "A", "-", "C", "5", "A", "B", "0", "D", "C", "8",
    "5", "B", "1", "1">>

\* calculateAcceptKey with a slip: the magic string comes first
calculateAcceptKey_MagicFirst(key) == Base64(Sha1(Bytes(websocketMagicString \o key)))

\* calculateAcceptKey
calculateAcceptKey(key) == Base64(Sha1(Bytes(key \o websocketMagicString)))

\* the handshake response written to the hijacked connection
SwitchingProtocols(acceptKey) ==
  [status |-> 101, Upgrade |-> "websocket", Connection |-> "Upgrade",
   SecWebSocketAccept |-> acceptKey]

\* the header test with a slip: a request without the key goes on
MissingKey_Never(key) == FALSE

\* `if key == ""`
MissingKey(key) == key = <<>>

\* Upgrade up to its `go` statement or to the return of an error: gives the
\* context, the error, the state of the connection, what was written to it
\* and whether the goroutine of the handler was started
Upgrade(c, env) ==
  LET r == c.Request
      refuse(code, msg) ==
        [c |-> JSON(Status(c, code), ErrValue(msg)).c, err |-> TRUE, conn |-> "http",
         wire |-> <<>>, started |-> FALSE]
  IN  IF r.Connection # "Upgrade" \/ r.Upgrade # "websocket"
      THEN refuse(400, "{error: Not a WebSocket upgrade request}")
      ELSE IF MissingKey(r.SecWebSocketKey)
      THEN refuse(400, "{error: Missing Sec-WebSocket-Key header}")
      ELSE IF ~env.hijacker
      THEN refuse(500, "{error: WebSocket upgrade not supported}")
      ELSE IF env.hijackErr
      THEN refuse(500, "{error: Failed to hijack connection}")
      ELSE IF env.writeErr \/ env.flushErr
      THEN [c |-> c, err |-> TRUE, conn |-> "closed", wire |-> <<>>, started |-> FALSE]
      ELSE [c |-> c, err |-> FALSE, conn |-> "hijacked",
            wire |-> <<SwitchingProtocols(calculateAcceptKey(r.SecWebSocketKey))>>,
            started |-> TRUE]

NoUpgrade ==
  [pc |-> "idle", err |-> FALSE, conn |-> "http", wire |-> <<>>, handler |-> "none"]

notUp == <<routes, middleware, static, uses, pc, mwIdx, handler, hpc, deferred, trace,
           outcome, probe, sessVars, rateVars, group, conn, moreVars>>

\* the handler of a request calls c.Upgrade(handler)
UpgradeCall(r, env) ==
  /\ up.pc = "idle"
  /\ LET res == Upgrade(NewContext(r), env)
     IN  /\ ctx' = res.c
         /\ up' = [pc |-> IF res.err THEN "returned" ELSE "go",
                   err |-> res.err, conn |-> res.conn, wire |-> res.wire,
                   handler |-> IF res.started THEN "started" ELSE "none"]
  /\ UNCHANGED notUp

\* `return nil` after the go statement
UpgradeReturn ==
  /\ up.pc = "go"
  /\ up' = [up EXCEPT !.pc = "returned"]
  /\ UNCHANGED <<ctx, notUp>>

\* the goroutine runs: handler(ws) is called
WsHandlerCalled ==
  /\ up.handler = "started"
  /\ up' = [up EXCEPT !.handler = "running"]
  /\ UNCHANGED <<ctx, notUp>>

\* handler(ws) returns: the deferred conn.Close() runs
WsHandlerReturns ==
  /\ up.handler = "running"
  /\ up' = [up EXCEPT !.handler = "returned", !.conn = "closed"]
  /\ UNCHANGED <<ctx, notUp>>

\* the request and its connection are over; the next request arrives
UpgradeOver ==
  /\ up.pc = "returned"
  /\ up.handler \in {"none", "returned"}
  /\ up' = NoUpgrade
  /\ ctx' = NewContext(NoRequest)
  /\ UNCHANGED notUp

InitUpgrade ==
  /\ AppOff
  /\ probe = NoProbe
  /\ SessOff
  /\ RateOff
  /\ GroupOff
  /\ up = NoUpgrade
  /\ conn = <<>>
  /\ MoreOff

NextUpgrade ==
  \/ \E r \in UpgradeRequests, env \in Environments : UpgradeCall(r, env)
  \/ UpgradeReturn
  \/ WsHandlerCalled
  \/ WsHandlerReturns
  \/ UpgradeOver

SpecUpgrade == InitUpgrade /\ [][NextUpgrade]_vars

\* the request carries the three handshake headers
Handshake(r) ==
  /\ r.Connection = "Upgrade"
  /\ r.Upgrade = "websocket"
  /\ r.SecWebSocketKey # <<>>

UpgradeCalled == up.pc # "idle"

\* what reached the client: the status line written to the hijacked
\* connection, else the one of the ResponseWriter
UpgradeStatus == IF up.wire # <<>> THEN up.wire[1].status ELSE ClientStatus

\* the handshake apart from what is sent on refusal: a request without the
\* headers gets an error, the context's status 400 and no handler; a call
\* that returns nil has written the 101 and started the handler; the
\* connection is closed once the handler has returned
UpgradeHandshake ==
  UpgradeCalled =>
    /\ ~Handshake(ctx.Request) =>
         up.err /\ ctx.statusCode = 400 /\ up.handler = "none" /\ up.wire = <<>>
    /\ (up.pc = "returned" /\ ~up.err) =>
         /\ UpgradeStatus = 101
         /\ up.handler \in {"started", "running", "returned"}
    /\ up.handler = "returned" => up.conn = "closed"
    /\ up.handler \in {"started", "running"} => up.conn = "hijacked"

UpgradeHandshake_Witness ==
  /\ up.pc = "returned"
  /\ ~up.err
  /\ up.handler = "started"
  /\ ctx.Request.Method = "POST"

\* C18: unless the request carries Connection: Upgrade, Upgrade: websocket
\* and a non-empty Sec-WebSocket-Key, Upgrade returns an error, answers 400
\* and never calls the handler; on success it writes the 101 response, starts
\* the handler on its own goroutine and returns nil without waiting for it,
\* and the connection is closed when the handler returns.
C18_Upgrade ==
  UpgradeCalled =>
    /\ ~Handshake(ctx.Request) =>
         up.err /\ UpgradeStatus = 400 /\ up.handler = "none"
    /\ (up.pc = "returned" /\ ~up.err) =>
         /\ UpgradeStatus = 101
         /\ up.handler \in {"started", "running", "returned"}
    /\ up.handler = "returned" => up.conn = "closed"

(***************************************************************************)
(* WebSocket frames: WriteMessage and ReadMessage on a connection. Bytes   *)
(* are numbers 0..255; a []byte is a sequence of them.                     *)
(***************************************************************************)
MaxPayloadLen == 2   \* longest payload whose every content is tried

SampleBytes == {0, 1, 255}

RECURSIVE BytesOfLen(_)
BytesOfLen(n) ==
  IF n = 0 THEN {<<>>}
  ELSE {Append(s, b) : s \in BytesOfLen(n - 1), b \in SampleBytes}

\* a payload of n bytes that differ from their neighbours
Pattern(n, seed) == [i \in 1..n |-> (7 * i + seed) % 256]

\* the lengths around the limits of the length fields
LongLens == {125, 126, 127, 255, 256, 65535, 65536}

\* the payloads handed to WriteMessage
Payloads ==
  UNION {BytesOfLen(n) : n \in 0..MaxPayloadLen} \cup {Pattern(n, n) : n \in LongLens}

\* byte(x): the low 8 bits
byte(x) == x % 256

\* x ^ y on bytes
Xor(x, y) == XorBits(x, y, 8)

\* WriteMessage's frame with a slip: the length bytes are swapped
Frame_LittleEndian(data) ==
  (IF Len(data) < 126
   THEN <<129, byte(Len(data))>>
   ELSE <<129, 126, byte(Len(data) % 256), byte(Len(data) \div 256)>>) \o data

\* the frame WriteMessage builds: 0x81, the length, the payload
Frame(data) ==
  (IF Len(data) < 126
   THEN <<129, byte(Len(data))>>
   ELSE <<129, 126, byte(Len(data) \div 256), byte(Len(data) % 256)>>) \o data

\* WriteMessage with a check it does not make: a payload too long for the
\* 16-bit length field is refused
WriteMessage_Checked(data, writeErr) ==
  IF writeErr \/ Len(data) > 65535
  THEN [wire |-> <<>>, err |-> TRUE]
  ELSE [wire |-> Frame(data), err |-> FALSE]

\* WriteMessage: ws.conn.Write(frame) sends the frame or fails
WriteMessage(data, writeErr) ==
  IF writeErr
  THEN [wire |-> <<>>, err |-> TRUE]
  ELSE [wire |-> Frame(data), err |-> FALSE]

\* ws.conn.Read(buf) on a buffer of size bytes when got bytes of the stream
\* have arrived: it fills the start of the buffer and returns; with nothing
\* left to arrive it fails (io.EOF) unless the buffer is empty
ConnRead(stream, size, got) ==
  [buf  |-> [i \in 1..size |-> IF i <= got THEN stream[i] ELSE 0],
   rest |-> SubSeq(stream, got + 1, Len(stream)),
   err  |-> size > 0 /\ got = 0]

\* how many bytes one Read can return
Gots(stream, size) ==
  IF size = 0 \/ stream = <<>> THEN {0}
  ELSE 1..(IF size < Len(stream) THEN size ELSE Len(stream))

\* header[1] & 0x7F and header[1]&0x80 != 0
PayloadLen(header) == header[2] % 128

Masked(header) == (header[2] \div 128) % 2 = 1

\* the unmasking loop: payload[i] ^= maskKey[i%4], indices from 0
Unmask(payload, maskKey) ==
  [i \in 1..Len(payload) |-> Xor(payload[i], maskKey[((i - 1) % 4) + 1])]

ReadFailed(rest) == [payload |-> <<>>, err |-> TRUE, rest |-> rest]

\* ReadMessage when its three reads return got1, got2 and got3 bytes
ReadMessage(stream, got1, got2, got3) ==
  LET h == ConnRead(stream, 2, got1)
  IN  IF h.err THEN ReadFailed(h.rest)
      ELSE LET k == IF Masked(h.buf)
                    THEN ConnRead(h.rest, 4, got2)
                    ELSE [buf |-> <<>>, rest |-> h.rest, err |-> FALSE]
           IN  IF k.err THEN ReadFailed(k.rest)
               ELSE LET p == ConnRead(k.rest, PayloadLen(h.buf), got3)
                    IN  IF p.err THEN ReadFailed(p.rest)
                        ELSE [payload |-> IF Masked(h.buf) THEN Unmask(p.buf, k.buf)
                                          ELSE p.buf,
                              err |-> FALSE, rest |-> p.rest]

\* what a client puts on the connection: a first byte (FIN and opcode), a
\* second byte (mask bit and 7-bit length), a mask key if the mask bit is
\* set, and the bytes after it
FirstBytes == {129, 1, 130, 136}

Len7s == {0, 1, MaxPayloadLen + 1, 126, 127}

MaskKeys == {<<0, 0, 0, 0>>, <<1, 2, 3, 4>>, <<255, 128, 7, 64>>}

ClientStreams ==
  { <<b0, (IF masked THEN 128 ELSE 0) + len7>> \o (IF masked THEN key ELSE <<>>)
      \o Pattern(len7 + extra, b0) :
        b0 \in FirstBytes, masked \in BOOLEAN, len7 \in Len7s, key \in MaskKeys,
        extra \in {0, 1} }

NoConn ==
  [op |-> "none", done |-> FALSE, data |-> <<>>, wire |-> <<>>, err |-> FALSE,
   stream |-> <<>>, payload |-> <<>>, rest |-> <<>>, short |-> FALSE]

notConn == <<appVars, sessVars, rateVars, group, up, moreVars>>

\* the handler calls ws.WriteMessage(data)
WriteMessageCall(writeErr) ==
  /\ conn.op = "write"
  /\ ~conn.done
  /\ LET res == WriteMessage(conn.data, writeErr)
     IN  conn' = [conn EXCEPT !.done = TRUE, !.wire = res.wire, !.err = res.err]
  /\ UNCHANGED notConn

\* the handler calls ws.ReadMessage() while the bytes of the stream arrive
ReadMessageCall ==
  /\ conn.op = "read"
  /\ ~conn.done
  /\ \E got1 \in Gots(conn.stream, 2) :
       LET h == ConnRead(conn.stream, 2, got1)
           keyLen == IF Masked(h.buf) THEN 4 ELSE 0
       IN  \E got2 \in Gots(h.rest, keyLen) :
             LET k == ConnRead(h.rest, keyLen, got2)
                 len == PayloadLen(h.buf)
             IN  \E got3 \in Gots(k.rest, len) :
                   LET res == ReadMessage(conn.stream, got1, got2, got3)
                   IN  conn' = [conn EXCEPT
                                  !.done = TRUE, !.payload = res.payload,
                                  !.err = res.err, !.rest = res.rest,
                                  !.short = got1 < 2 \/ got2 < keyLen \/ got3 < len]
  /\ UNCHANGED notConn

\* a connection on which the handler is about to write a payload, or to
\* read what the client has sent
InitFrames ==
  /\ AppOff
  /\ probe = NoProbe
  /\ SessOff
  /\ RateOff
  /\ GroupOff
  /\ up = <<>>
  /\ MoreOff
  /\ \/ \E data \in Payloads : conn = [NoConn EXCEPT !.op = "write", !.data = data]
     \/ \E stream \in ClientStreams : conn = [NoConn EXCEPT !.op = "read", !.stream = stream]

NextFrames ==
  \/ \E writeErr \in BOOLEAN : WriteMessageCall(writeErr)
  \/ ReadMessageCall

SpecFrames == InitFrames /\ [][NextFrames]_vars

Wrote == conn.op = "write" /\ conn.done /\ ~conn.err

\* C19: WriteMessage emits one unmasked frame whose first byte is 0x81; for
\* a payload of fewer than 126 bytes the second byte is the length, for one
\* of 126 to 65535 bytes it is 126 followed by the length as a 16-bit
\* big-endian value; the payload bytes follow unchanged.
C19_WriteFrame ==
  Wrote =>
    LET f == conn.wire
        n == Len(conn.data)
    IN  /\ f[1] = 129
        /\ f[2] < 128
        /\ n < 126 =>
             /\ f[2] = n
             /\ Len(f) = n + 2
             /\ \A i \in 1..n : f[i + 2] = conn.data[i]
        /\ (n >= 126 /\ n <= 65535) =>
             /\ f[2] = 126
             /\ 256 * f[3] + f[4] = n
             /\ Len(f) = n + 4
             /\ \A i \in 1..n : f[i + 4] = conn.data[i]

C19_Witness ==
  /\ Wrote
  /\ Len(conn.data) = 65535
  /\ conn.wire[3] = 255
  /\ conn.wire[4] = 255
  /\ conn.wire[Len(conn.wire)] = conn.data[65535]

\* the frame at the head of a stream as the claim reads it: a 7-bit length
\* and a mask bit in the second byte, a 4-byte key if the bit is set, then
\* the payload
FrameLen(stream) == CHOOSE l \in 0..127 : stream[2] = l \/ stream[2] = 128 + l

FrameMasked(stream) == stream[2] >= 128

FrameOffset(stream) == IF FrameMasked(stream) THEN 6 ELSE 2

FrameComplete(stream) ==
  Len(stream) >= 2 /\ Len(stream) >= FrameOffset(stream) + FrameLen(stream)

FramePayload(stream) ==
  [i \in 1..FrameLen(stream) |->
     IF FrameMasked(stream)
     THEN Xor(stream[FrameOffset(stream) + i], stream[3 + ((i - 1) % 4)])
     ELSE stream[FrameOffset(stream) + i]]

HasRead == conn.op = "read" /\ conn.done

\* the parsing alone: when each Read fills its buffer, ReadMessage returns
\* the payload of the frame at the head of the stream
ReadMessageParses ==
  (HasRead /\ FrameComplete(conn.stream) /\ ~conn.short) =>
     /\ ~conn.err
     /\ conn.payload = FramePayload(conn.stream)
     /\ conn.rest = SubSeq(conn.stream,
                           FrameOffset(conn.stream) + FrameLen(conn.stream) + 1,
                           Len(conn.stream))

\* C20: ReadMessage reads a 2-byte header, takes the payload length from the
\* low 7 bits of the second byte, reads a 4-byte mask key exactly when the
\* mask bit is set, reads that many payload bytes and returns them, byte i
\* XOR-ed with maskKey[i mod 4] when masked; the first byte of the frame has
\* no influence.
C20_ReadFrame ==
  (HasRead /\ FrameComplete(conn.stream)) =>
     /\ ~conn.err
     /\ conn.payload = FramePayload(conn.stream)

(***************************************************************************)
(* Context.Validate: validateStruct on a struct whose fields are strings.  *)
(* A string value is a sequence of characters, each with the number of     *)
(* bytes its UTF-8 encoding takes; a validate tag is a sequence of tokens  *)
(* (words, digits, "," "=" and " ").                                       *)
(***************************************************************************)
MaxStrLen == 3   \* longest field value, in characters

\* the characters of field values: "a" is one byte, "e-acute" (U+00E9) two
FieldChars == {"a", "e-acute"}

Utf8Len(ch) == IF ch = "a" THEN 1 ELSE 2

RECURSIVE FieldStringsOfLen(_)
FieldStringsOfLen(n) ==
  IF n = 0 THEN {<<>>}
  ELSE {Append(s, ch) : s \in FieldStringsOfLen(n - 1), ch \in FieldChars}

FieldStrings == UNION {FieldStringsOfLen(n) : n \in 0..(MaxStrLen + 1)}

\* len(s) of a Go string: its length in bytes
RECURSIVE len(_)
len(s) == IF s = <<>> THEN 0 ELSE Utf8Len(Head(s)) + len(Tail(s))

\* strings.Split(s, sep) on tokens
RECURSIVE SplitBy(_, _, _, _)
SplitBy(s, sep, cur, acc) ==
  IF s = <<>> THEN Append(acc, cur)
  ELSE IF Head(s) = sep THEN SplitBy(Tail(s), sep, <<>>, Append(acc, cur))
  ELSE SplitBy(Tail(s), sep, Append(cur, Head(s)), acc)

\* strings.TrimSpace
RECURSIVE TrimSpace(_)
TrimSpace(s) ==
  IF s # <<>> /\ Head(s) = " " THEN TrimSpace(Tail(s))
  ELSE IF s # <<>> /\ s[Len(s)] = " " THEN TrimSpace(SubSeq(s, 1, Len(s) - 1))
  ELSE s

\* strings.SplitN(part, "=", 2): cut at the first "="
SplitN2(part) ==
  IF \E i \in 1..Len(part) : part[i] = "="
  THEN LET i == CHOOSE k \in 1..Len(part) :
                  part[k] = "=" /\ \A j \in 1..(k - 1) : part[j] # "="
       IN  <<SubSeq(part, 1, i - 1), SubSeq(part, i + 1, Len(part))>>
  ELSE <<part>>

\* parseValidationTag: the rules of a tag, in the order of the tag
RECURSIVE parseParts(_)
parseParts(parts) ==
  IF parts = <<>> THEN <<>>
  ELSE LET part == TrimSpace(Head(parts))
           ruleParts == SplitN2(part)
       IN  IF part = <<>> THEN parseParts(Tail(parts))
           ELSE <<[Type  |-> ruleParts[1],
                   Value |-> IF Len(ruleParts) > 1 THEN ruleParts[2] ELSE <<>>]>>
                \o parseParts(Tail(parts))

parseValidationTag(tag) == parseParts(SplitBy(tag, ",", <<>>, <<>>))

\* an error value: which message, about which field, with which number
Errorf(msg, fieldName, n) == [nil |-> FALSE, msg |-> msg, field |-> fieldName, n |-> n]

NilError == [nil |-> TRUE, msg |-> "", field |-> "", n |-> 0]

\* validateRequired on a string field
validateRequired(field, fieldName) ==
  IF field = <<>> THEN Errorf("is required", fieldName, 0) ELSE NilError

\* strconv.Atoi on a value of the tag: decimal digits only
Atoi(s) ==
  IF s # <<>> /\ \A i \in 1..Len(s) : \E d \in 1..10 : DigitChars[d] = s[i]
  THEN [err |-> FALSE, n |-> DecimalValue(s)]
  ELSE [err |-> TRUE, n |-> 0]

\* validateMin on a string field
validateMin(field, fieldName, minStr) ==
  LET min == Atoi(minStr)
  IN  IF min.err THEN Errorf("invalid min value", "", 0)
      ELSE IF len(field) < min.n
      THEN Errorf("must be at least characters", fieldName, min.n)
      ELSE NilError

\* applyValidationRule, for the rules of the tags tried here
applyValidationRule(field, fieldName, rule) ==
  CASE rule.Type = <<"required">> -> validateRequired(field, fieldName)
    [] rule.Type = <<"min">> -> validateMin(field, fieldName, rule.Value)
    [] OTHER -> Errorf("unknown validation rule", "", 0)

\* validateField: the rules in order, the first error is returned
RECURSIVE validateField(_, _, _)
validateField(field, fieldName, rules) ==
  IF rules = <<>> THEN NilError
  ELSE LET err == applyValidationRule(field, fieldName, Head(rules))
       IN  IF ~err.nil THEN err ELSE validateField(field, fieldName, Tail(rules))

\* validateStruct: the errors of the tagged fields, in field order (joined
\* with "; " into one error, nil when there are none)
RECURSIVE validateStruct(_)
validateStruct(v) ==
  IF v = <<>> THEN <<>>
  ELSE LET f == Head(v)
           err == IF f.tag = <<>> THEN NilError
                  ELSE validateField(f.value, f.name, parseValidationTag(f.tag))
       IN  (IF err.nil THEN <<>> ELSE <<err>>) \o validateStruct(Tail(v))

TagRequiredMin3 == <<"required", ",", "min", "=", "3">>

\* the validate tags tried
Tags ==
  { TagRequiredMin3,
    <<"min", "=", "3", ",", "required">>,
    <<"required", ",", " ", "min", "=", "3", " ">>,
    <<"required", ",", ",", "min", "=", "2">>,
    <<"min", "=", "1", "0">>,
    <<"required">>,
    <<"min">>,
    <<"min", "=", "a">>,
    <<"length", "=", "3", ",", "required">>,
    <<>> }

notValidation == <<appVars, sessVars, rateVars, group, wsVars, auth, hub, timing, sends, accept>>

\* a handler calls c.Validate(&v)
ValidateCall ==
  /\ ~validation.done
  /\ validation' = [validation EXCEPT !.done = TRUE, !.errs = validateStruct(validation.v)]
  /\ UNCHANGED notValidation

\* a struct with one string field Name, about to be validated
InitValidate ==
  /\ AppOff
  /\ probe = NoProbe
  /\ SessOff
  /\ RateOff
  /\ GroupOff
  /\ WsOff
  /\ auth = <<>>
  /\ hub = <<>>
  /\ timing = <<>>
  /\ sends = <<>>
  /\ accept = <<>>
  /\ \E tag \in Tags, value \in FieldStrings :
       validation = [v |-> <<[name |-> "Name", tag |-> tag, value |-> value]>>,
                     done |-> FALSE, errs |-> <<>>]

NextValidate == ValidateCall

SpecValidate == InitValidate /\ [][NextValidate]_vars

Validated(tag) == validation.done /\ validation.v[1].tag = tag

\* the rules of the validated field that fail when applied alone
FailingRules ==
  LET f == validation.v[1]
      rules == parseValidationTag(f.tag)
  IN  {i \in 1..Len(rules) : ~applyValidationRule(f.value, f.name, rules[i]).nil}

\* the rules are applied in tag order and the first failing one is reported;
\* with `required,min=3` the byte length decides
ValidateReportsFirst ==
  validation.done =>
    LET f == validation.v[1]
        rules == parseValidationTag(f.tag)
    IN  /\ (validation.errs = <<>>) <=> (FailingRules = {})
        /\ FailingRules # {} =>
             validation.errs =
               <<applyValidationRule(f.value, f.name, rules[Min(FailingRules)])>>
        /\ f.tag = TagRequiredMin3 =>
             /\ (validation.errs = <<>>) <=> (len(f.value) >= 3)
             /\ f.value = <<>> => validation.errs[1].msg = "is required"

ValidateReportsFirst_Witness ==
  /\ Validated(<<"min", "=", "3", ",", "required">>)
  /\ validation.v[1].value = <<>>
  /\ validation.errs[1].msg = "must be at least characters"

\* C21: a string field tagged `required,min=3` fails for the empty string
\* and for every string shorter than 3 characters and passes for every
\* string of 3 or more characters; the rules are applied in tag order and the
\* first failing rule is the one reported.
C21_RequiredMin3 ==
  Validated(TagRequiredMin3) =>
    LET value == validation.v[1].value
        errs == validation.errs
    IN  /\ Len(value) < 3 => errs # <<>>
        /\ Len(value) >= 3 => errs = <<>>
        /\ value = <<>> => errs[1].msg = "is required"
        /\ (value # <<>> /\ Len(value) < 3) => errs[1].msg = "must be at least characters"

(***************************************************************************)
(* calculateAcceptKey alone, on the keys a client may send.                *)
(***************************************************************************)
MaxKeyLen == 4   \* longest key whose every content is tried

KeyChars == {"A", "z", "="}

RECURSIVE KeysOfLen(_)
KeysOfLen(n) ==
  IF n = 0 THEN {<<>>}
  ELSE {Append(s, ch) : s \in KeysOfLen(n - 1), ch \in KeyChars}

\* a second key whose accept value is published (with the RFC's example)
OtherKey ==
  <<"x", "3", "J", "J", "H", "M", "b", "D", "L", "1", "E", "z", "L", "k", "h", "9",
    "G", "B", "h", "X", "D", "w", "=", "=">>

AcceptKeys == UNION {KeysOfLen(n) : n \in 0..MaxKeyLen} \cup {SampleKey, OtherKey}

notAccept == <<appVars, sessVars, rateVars, group, wsVars, validation, auth, hub, timing,
               sends>>

\* Upgrade calls calculateAcceptKey(key)
CalculateAcceptKeyCall ==
  /\ ~accept.done
  /\ accept' = [accept EXCEPT !.done = TRUE, !.value = calculateAcceptKey(accept.key)]
  /\ UNCHANGED notAccept

InitAccept ==
  /\ AppOff
  /\ probe = NoProbe
  /\ SessOff
  /\ RateOff
  /\ GroupOff
  /\ WsOff
  /\ validation = <<>>
  /\ auth = <<>>
  /\ hub = <<>>
  /\ timing = <<>>
  /\ sends = <<>>
  /\ \E key \in AcceptKeys : accept = [key |-> key, done |-> FALSE, value |-> <<>>]

NextAccept == CalculateAcceptKeyCall

SpecAccept == InitAccept /\ [][NextAccept]_vars

\* "s3pPLMBiTxaQ9kYGzzhZRbK+xOo="
SampleAccept ==
  <<"s", "3", "p", "P", "L", "M", "B", "i", "T", "x", "a", "Q", "9", "k", "Y", "G",
    "z", "z", "h", "Z", "R", "b", "K", "+", "x", "O", "o", "=">>

\* "HSmrc0sMlYUkAGmm5OPpG2HaGWk="
OtherAccept ==
  <<"H", "S", "m", "r", "c", "0", "s", "M", "l", "Y", "U", "k", "A", "G", "m", "m",
    "5", "O", "P", "p", "G", "2", "H", "a", "G", "W", "k", "=">>

\* C28: calculateAcceptKey returns Base64(SHA-1(key + "258EAFA5-E914-47DA-
\* 95CA-C5AB0DC85B11")): 28 characters for the 20 bytes of the digest; for
\* the key "dGhlIHNhbXBsZSBub25jZQ==" it is "s3pPLMBiTxaQ9kYGzzhZRbK+xOo=".
C28_AcceptKey ==
  accept.done =>
    /\ accept.value = Base64(Sha1(Bytes(accept.key) \o Bytes(websocketMagicString)))
    /\ Len(Sha1(Bytes(accept.key \o websocketMagicString))) = 20
    /\ Len(accept.value) = 28
    /\ accept.value[28] = "="
    /\ accept.key = SampleKey => accept.value = SampleAccept
    /\ accept.key = OtherKey => accept.value = OtherAccept

C28_Witness ==
  /\ accept.done
  /\ accept.key = SampleKey
  /\ accept.value = SampleAccept

(***************************************************************************)
(* AuthManager and the RequireUser middleware. A *User is the ID of the    *)
(* User object it points to (objects keep their ID for life); the n-th     *)
(* value of generateID is the number n. Each method is taken statement by  *)
(* statement by the request task that calls it, so that the calls of two   *)
(* tasks interleave as the goroutines of net/http do.                      *)
(***************************************************************************)
MaxIDs == 3   \* most IDs generateID hands out (user IDs and tokens)

\* usernames and email addresses (a login name may be either)
Names == {"a", "b"}

Passwords == {<<"p">>, <<"q">>}

\* the browser sessions (Session bags) that carry an auth_token
Browsers == {"b1"}

\* base64.StdEncoding.DecodeString
RECURSIVE Base64Decode(_)
Base64Decode(s) ==
  IF s = <<>> THEN [err |-> FALSE, bytes |-> <<>>]
  ELSE IF Len(s) < 4 THEN [err |-> TRUE, bytes |-> <<>>]
  ELSE LET pad == IF s[4] = "=" THEN (IF s[3] = "=" THEN 2 ELSE 1) ELSE 0
           ok == /\ \A i \in 1..(4 - pad) : \E k \in 1..64 : Base64Alphabet[k] = s[i]
                 /\ pad > 0 => Len(s) = 4
           val(i) == IF i <= 4 - pad
                     THEN (CHOOSE k \in 1..64 : Base64Alphabet[k] = s[i]) - 1
                     ELSE 0
           n == 262144 * val(1) + 4096 * val(2) + 64 * val(3) + val(4)
           rest == Base64Decode(SubSeq(s, 5, Len(s)))
       IN  IF ~ok \/ rest.err THEN [err |-> TRUE, bytes |-> <<>>]
           ELSE [err |-> FALSE,
                 bytes |-> SubSeq(<<n \div 65536, (n \div 256) % 256, n % 256>>, 1, 3 - pad)
                           \o rest.bytes]

\* hashPassword
hashPassword(password) == Base64(Bytes(password))

\* verifyPassword
verifyPassword(hash, password) ==
  LET decoded == Base64Decode(hash)
  IN  /\ ~decoded.err
      /\ Len(decoded.bytes) = Len(password)
      /\ \A i \in 1..Len(password) : decoded.bytes[i] = Ord(password[i])

MapDelete(m, k) == [x \in (DOMAIN m) \ {k} |-> m[x]]

\* Register, lines 37-41: some stored user has the username or the email
UserExists(am, username, email) ==
  \E id \in am.users :
    am.objects[id].Username = username \/ am.objects[id].Email = email

\* Login, lines 70-75: the users the loop may stop at (map order is random)
LoginMatches(am, username) ==
  {id \in am.users :
     am.objects[id].Username = username \/ am.objects[id].Email = username}

\* GetUser: am.sessions[token], 0 for nil
GetUser(am, token) == IF token \in DOMAIN am.sessions THEN am.sessions[token] ELSE 0

\* DeleteUser with a slip: the sessions of the user stay
DeleteSessions_None(am, userID) == am.sessions

\* DeleteUser, lines 150-154: the sessions of the user are removed
DeleteSessions(am, userID) ==
  [token \in {t \in DOMAIN am.sessions : am.objects[am.sessions[t]].ID # userID}
     |-> am.sessions[token]]

\* RequireUser, on the token read from the session and the user GetUser
\* gave for it (0 for nil): the context and the return value
RequireUser(c, token, user) ==
  IF token = 0
  THEN [c |-> JSON(Status(c, 401), ErrValue("{error: Authentication required}")).c,
        ret |-> "false"]
  ELSE IF user = 0
  THEN [c |-> JSON(Status(c, 401), ErrValue("{error: Invalid session}")).c,
        ret |-> "false"]
  ELSE [c |-> c, ret |-> "true"]

\* the requests sent to the routes behind RequireUser
AccessRequests ==
  { [Method |-> sh.Method, Path |-> PathUsers, ContentLength |-> sh.ContentLength,
     Body |-> sh.Body] : sh \in {x \in RequestShapes : x.Body # "garbage"} }

NoAuthCall ==
  [op |-> "none", username |-> "", email |-> "", password |-> <<>>, newPassword |-> <<>>,
   b |-> "", clear |-> FALSE, userID |-> 0, r |-> NoRequest]

\* what a request task does: an AuthManager method called by its handler
\* (Login and Logout with the session handling the documentation shows), or
\* a request to a route behind RequireUser
AuthCalls ==
  { [NoAuthCall EXCEPT !.op = "Register", !.username = u, !.email = e, !.password = p] :
      u \in Names, e \in Names, p \in Passwords }
  \cup
  { [NoAuthCall EXCEPT !.op = "Login", !.username = u, !.password = p, !.b = b] :
      u \in Names, p \in Passwords, b \in Browsers }
  \cup
  { [NoAuthCall EXCEPT !.op = "Logout", !.b = b, !.clear = cl] :
      b \in Browsers, cl \in BOOLEAN }
  \cup
  { [NoAuthCall EXCEPT !.op = "ChangePassword", !.userID = id, !.password = p,
                       !.newPassword = q] :
      id \in 1..MaxIDs, p \in Passwords, q \in Passwords }
  \cup
  { [NoAuthCall EXCEPT !.op = "UpdateUser", !.userID = id, !.email = e] :
      id \in 1..MaxIDs, e \in Names }
  \cup
  { [NoAuthCall EXCEPT !.op = "DeleteUser", !.userID = id] : id \in 1..MaxIDs }
  \cup
  { [NoAuthCall EXCEPT !.op = "Access", !.b = b, !.r = r] :
      b \in Browsers, r \in AccessRequests }

\* the first statement of each call
FirstPc(op) ==
  CASE op = "Register" -> "register_scan"
    [] op = "Login" -> "login_find"
    [] op = "Logout" -> "logout"
    [] op = "ChangePassword" -> "change_password"
    [] op = "UpdateUser" -> "update_user"
    [] op = "DeleteUser" -> "delete_user"
    [] op = "Access" -> "require_token"

\* a task that serves no request
IdleTask ==
  [pc |-> "idle", call |-> NoAuthCall, user |-> 0, token |-> 0, c |-> NewContext(NoRequest)]

\* what the last finished call returned, and what held when it was made
NoReturn == [op |-> "none", err |-> "", ran |-> FALSE, status |-> 0, valid |-> FALSE]
notAuth == <<appVars, sessVars, rateVars, group, wsVars, validation, hub, timing, sends,
             accept>>

\* the token the session of browser b holds (0: none) resolves to a user
\* that is in the user table
LoggedIn(b) ==
  /\ auth.browser[b] # 0
  /\ auth.browser[b] \in DOMAIN auth.sessions
  /\ auth.sessions[auth.browser[b]] \in auth.users

\* history: how far the calls have come in the sequence login, access,
\* logout, access on one session
Progress(p, call, err, ran) ==
  CASE call.op = "Login" /\ err = "" -> "L"
    [] call.op = "Access" /\ p = "L" -> IF ran THEN "LA" ELSE "LD"
    [] call.op = "Logout" /\ p = "LA" -> "LAO"
    [] call.op = "Access" /\ p = "LAO" -> IF ran THEN "LAOA" ELSE "LAOD"
    [] OTHER -> "none"

\* what a call returns: nothing, unless said otherwise
Ret == [err |-> "", ran |-> FALSE]

\* the User objects that are still referenced (the others are garbage)
Live(am, g) ==
  am.users \cup {am.sessions[t] : t \in DOMAIN am.sessions}
           \cup {am.tasks[h].user : h \in (DOMAIN am.tasks) \ {g}}

\* the call of task g returns ret, in the state am
Returns(am, g, ret) ==
  LET t == am.tasks[g]
  IN  [am EXCEPT
         !.tasks[g] = IdleTask,
         !.objects = [id \in (DOMAIN @) \cap Live(am, g) |-> @[id]],
         !.pattern = Progress(@, t.call, ret.err, ret.ran),
         !.last = [op |-> t.call.op, err |-> ret.err, ran |-> ret.ran,
                   status |-> IF t.c.Response.status = 0 THEN 200
                              ELSE t.c.Response.status,
                   valid |-> @.valid]]

\* a request arrives and its handler (or RequireUser) is about to run
AuthCall(g, call) ==
  /\ auth.tasks[g].pc = "idle"
  /\ call.op \in {"Register", "Login"} =>
       auth.issued + Cardinality({h \in DOMAIN auth.tasks :
                                    auth.tasks[h].call.op \in {"Register", "Login"}})
         < auth.ids
  /\ auth' = [auth EXCEPT
                !.tasks[g] = [IdleTask EXCEPT !.pc = FirstPc(call.op), !.call = call,
                                              !.c = NewContext(call.r)],
                !.last = [NoReturn EXCEPT !.valid = call.b # "" /\ LoggedIn(call.b)]]
  /\ UNCHANGED notAuth

\* Register, lines 37-41
RegisterScan(g) ==
  /\ auth.tasks[g].pc = "register_scan"
  /\ LET call == auth.tasks[g].call
     IN  auth' = IF UserExists(auth, call.username, call.email)
                 THEN Returns(auth, g, [Ret EXCEPT !.err = "user already exists"])
                 ELSE [auth EXCEPT !.tasks[g].pc = "register_insert"]
  /\ UNCHANGED notAuth

\* Register, lines 44-62: generateID, the User object, am.users[id] = user
RegisterInsert(g, randErr) ==
  /\ auth.tasks[g].pc = "register_insert"
  /\ LET call == auth.tasks[g].call
         id == auth.issued + 1
         user == [ID |-> id, Username |-> call.username, Email |-> call.email,
                  Password |-> hashPassword(call.password)]
     IN  auth' = IF randErr
                 THEN Returns(auth, g, [Ret EXCEPT !.err = "rand"])
                 ELSE Returns([auth EXCEPT !.issued = id,
                                          !.objects = MapSet(@, id, user),
                                          !.users = @ \cup {id}],
                             g, Ret)
  /\ UNCHANGED notAuth

\* Login, lines 67-84: the loop stops at some matching user
LoginFind(g) ==
  /\ auth.tasks[g].pc = "login_find"
  /\ LET call == auth.tasks[g].call
     IN  IF LoginMatches(auth, call.username) = {}
         THEN auth' = Returns(auth, g, [Ret EXCEPT !.err = "user not found"])
         ELSE \E id \in LoginMatches(auth, call.username) :
                auth' = IF ~verifyPassword(auth.objects[id].Password, call.password)
                        THEN Returns(auth, g, [Ret EXCEPT !.err = "invalid password"])
                        ELSE [auth EXCEPT !.tasks[g].pc = "login_store",
                                          !.tasks[g].user = id]
  /\ UNCHANGED notAuth

\* Login, lines 87-93, and the handler's c.Session().Set("auth_token", token)
LoginStore(g, randErr) ==
  /\ auth.tasks[g].pc = "login_store"
  /\ LET t == auth.tasks[g]
         token == auth.issued + 1
     IN  auth' = IF randErr
                 THEN Returns(auth, g, [Ret EXCEPT !.err = "rand"])
                 ELSE Returns([auth EXCEPT !.issued = token,
                                          !.sessions = MapSet(@, token, t.user),
                                          !.browser[t.call.b] = token],
                             g, Ret)
  /\ UNCHANGED notAuth

\* the logout handler: the token of the session, Logout(token), and (in the
\* example application) c.Session().Delete("auth_token")
Logout(g) ==
  /\ auth.tasks[g].pc = "logout"
  /\ LET call == auth.tasks[g].call
         token == auth.browser[call.b]
     IN  auth' = IF token = 0
                 THEN Returns(auth, g, Ret)
                 ELSE Returns([auth EXCEPT
                                !.sessions = MapDelete(@, token),
                                !.browser[call.b] = IF call.clear THEN 0 ELSE @],
                             g, Ret)
  /\ UNCHANGED notAuth
\* ChangePassword
ChangePassword(g) ==
  /\ auth.tasks[g].pc = "change_password"
  /\ LET call == auth.tasks[g].call
         id == call.userID
     IN  auth' = IF id \notin auth.users
                 THEN Returns(auth, g, [Ret EXCEPT !.err = "user not found"])
                 ELSE IF ~verifyPassword(auth.objects[id].Password, call.password)
                 THEN Returns(auth, g, [Ret EXCEPT !.err = "invalid old password"])
                 ELSE Returns([auth EXCEPT !.objects[id].Password =
                                             hashPassword(call.newPassword)],
                              g, Ret)
  /\ UNCHANGED notAuth

\* UpdateUser with updates["email"]
UpdateUser(g) ==
  /\ auth.tasks[g].pc = "update_user"
  /\ LET call == auth.tasks[g].call
         id == call.userID
     IN  auth' = IF id \notin auth.users
                 THEN Returns(auth, g, [Ret EXCEPT !.err = "user not found"])
                 ELSE Returns([auth EXCEPT !.objects[id].Email = call.email], g, Ret)
  /\ UNCHANGED notAuth

\* DeleteUser, lines 143-147
DeleteUser(g) ==
  /\ auth.tasks[g].pc = "delete_user"
  /\ LET id == auth.tasks[g].call.userID
     IN  auth' = IF id \notin auth.users
                 THEN Returns(auth, g, [Ret EXCEPT !.err = "user not found"])
                 ELSE [auth EXCEPT !.users = @ \ {id}, !.tasks[g].pc = "delete_sessions"]
  /\ UNCHANGED notAuth

\* DeleteUser, lines 150-156
DeleteUserSessions(g) ==
  /\ auth.tasks[g].pc = "delete_sessions"
  /\ LET id == auth.tasks[g].call.userID
     IN  auth' = Returns([auth EXCEPT !.sessions = DeleteSessions(auth, id)], g, Ret)
  /\ UNCHANGED notAuth

\* RequireUser, lines 214-220: the token of the session
RequireUserToken(g) ==
  /\ auth.tasks[g].pc = "require_token"
  /\ LET t == auth.tasks[g]
         token == auth.browser[t.call.b]
         res == RequireUser(t.c, token, 0)
     IN  auth' = IF token = 0
                 THEN Returns([auth EXCEPT !.tasks[g].c = res.c], g, Ret)
                 ELSE [auth EXCEPT !.tasks[g].pc = "require_user", !.tasks[g].token = token]
  /\ UNCHANGED notAuth

\* RequireUser, lines 222-232: GetUser and the decision
RequireUserGetUser(g) ==
  /\ auth.tasks[g].pc = "require_user"
  /\ LET t == auth.tasks[g]
         user == GetUser(auth, t.token)
         res == RequireUser(t.c, t.token, user)
     IN  auth' = IF res.ret = "false"
                 THEN Returns([auth EXCEPT !.tasks[g].c = res.c], g, Ret)
                 ELSE [auth EXCEPT !.tasks[g].pc = "handler", !.tasks[g].user = user]
  /\ UNCHANGED notAuth

\* every middleware returned true: the handler of the route runs and
\* answers with c.JSON
ProtectedHandler(g) ==
  /\ auth.tasks[g].pc = "handler"
  /\ LET t == auth.tasks[g]
         c == JSON(t.c, ErrValue("{user: profile}")).c
     IN  auth' = Returns([auth EXCEPT !.tasks[g].c = c], g,
                         [Ret EXCEPT !.ran = TRUE])
  /\ UNCHANGED notAuth

\* NewAuthManager, the request tasks that use it, and the number of IDs
\* generateID hands out in this run
NewAuthManager(tasks, ids) ==
  [users |-> {}, objects |-> EmptyMap, sessions |-> EmptyMap, issued |-> 0, ids |-> ids,
   browser |-> [b \in Browsers |-> 0], pattern |-> "none",
   tasks |-> [g \in tasks |-> IdleTask], last |-> NoReturn]

AuthInit(tasks, ids) ==
  /\ AppOff
  /\ probe = NoProbe
  /\ SessOff
  /\ RateOff
  /\ GroupOff
  /\ WsOff
  /\ validation = <<>>
  /\ auth = NewAuthManager(tasks, ids)
  /\ hub = <<>>
  /\ timing = <<>>
  /\ sends = <<>>
  /\ accept = <<>>

NextAuth ==
  \/ \E g \in DOMAIN auth.tasks, call \in AuthCalls : AuthCall(g, call)
  \/ \E g \in DOMAIN auth.tasks : RegisterScan(g)
  \/ \E g \in DOMAIN auth.tasks, randErr \in BOOLEAN : RegisterInsert(g, randErr)
  \/ \E g \in DOMAIN auth.tasks : LoginFind(g)
  \/ \E g \in DOMAIN auth.tasks, randErr \in BOOLEAN : LoginStore(g, randErr)
  \/ \E g \in DOMAIN auth.tasks : Logout(g)
  \/ \E g \in DOMAIN auth.tasks : ChangePassword(g)
  \/ \E g \in DOMAIN auth.tasks : UpdateUser(g)
  \/ \E g \in DOMAIN auth.tasks : DeleteUser(g)
  \/ \E g \in DOMAIN auth.tasks : DeleteUserSessions(g)
  \/ \E g \in DOMAIN auth.tasks : RequireUserToken(g)
  \/ \E g \in DOMAIN auth.tasks : RequireUserGetUser(g)
  \/ \E g \in DOMAIN auth.tasks : ProtectedHandler(g)

\* one request at a time: the calls form a sequence
InitAuth == AuthInit({1}, MaxIDs)

SpecAuth == InitAuth /\ [][NextAuth]_vars

\* what the statement a task stands at reads and writes of the AuthManager: its two
\* maps and the User objects they point to
Accesses(at) ==
  CASE at = "register_scan" -> {<<"users", "r">>, <<"objects", "r">>}
    [] at = "register_insert" -> {<<"users", "w">>}
    [] at = "login_find" -> {<<"users", "r">>, <<"objects", "r">>}
    [] at = "login_store" -> {<<"sessions", "w">>}
    [] at = "logout" -> {<<"sessions", "w">>}
    [] at = "change_password" -> {<<"users", "r">>, <<"objects", "w">>}
    [] at = "update_user" -> {<<"users", "r">>, <<"objects", "w">>}
    [] at = "delete_user" -> {<<"users", "w">>}
    [] at = "delete_sessions" -> {<<"sessions", "w">>, <<"objects", "r">>}
    [] at = "require_user" -> {<<"sessions", "r">>}
    [] OTHER -> {}

\* tasks g and h stand at statements that access the same structure, one of
\* them writing; the AuthManager has no lock that would order them
Conflict(g, h) ==
  \E x \in Accesses(auth.tasks[g].pc), y \in Accesses(auth.tasks[h].pc) :
    x[1] = y[1] /\ "w" \in {x[2], y[2]}

\* two goroutines in a map at once, one writing: the Go runtime may stop the
\* process ("fatal error: concurrent map writes")
Fatal ==
  /\ \E g, h \in DOMAIN auth.tasks :
       g # h /\ Conflict(g, h) /\ \E x \in Accesses(auth.tasks[g].pc) : x[1] # "objects"
  /\ auth' = [auth EXCEPT !.tasks = [g \in DOMAIN @ |-> [@[g] EXCEPT !.pc = "dead"]]]
  /\ UNCHANGED notAuth

\* two requests served at once
InitAuthTasks == AuthInit({1, 2}, MaxIDs - 1)

NextAuthTasks == NextAuth \/ Fatal

SpecAuthTasks == InitAuthTasks /\ [][NextAuthTasks]_vars

AllIdle == \A g \in DOMAIN auth.tasks : auth.tasks[g].pc = "idle"

Accessed == auth.last.op = "Access"

\* RequireUser apart from what it sends: the handler runs exactly for the
\* requests whose session holds a token of a logged-in user, and login,
\* access, logout, access on one session gives allow, then deny
RequireUserGuards ==
  /\ Accessed => (auth.last.ran <=> auth.last.valid)
  /\ auth.pattern \notin {"LD", "LAOA"}

RequireUserGuards_Witness ==
  /\ auth.pattern = "LAOD"
  /\ auth.browser["b1"] # 0

\* C22: with RequireUser installed a handler runs only for requests whose
\* session holds an auth_token that resolves to a logged-in user; any other
\* request (no token, token logged out, user deleted) is stopped with 401 and
\* the handler does not run; login, access, logout, access on one session
\* gives allow, then deny.
C22_RequireUser ==
  /\ Accessed =>
       /\ auth.last.ran <=> auth.last.valid
       /\ ~auth.last.ran => auth.last.status = 401
  /\ auth.pattern \notin {"LD", "LAOA"}

\* a step of task 1 in which its call returns
Returned(op) ==
  /\ auth.tasks[1].call.op = op
  /\ auth'.tasks[1].pc = "idle"

\* C29: between the calls of any sequence of Register, Login, Logout,
\* ChangePassword, UpdateUser and DeleteUser every token of the session table
\* resolves to a user that is in the user table; Logout(t) makes GetUser(t)
\* nil, DeleteUser(id) removes every token of that user, and a Login that
\* fails adds no token.
C29_Tokens ==
  /\ [](AllIdle =>
          \A t \in DOMAIN auth.sessions :
            /\ GetUser(auth, t) \in auth.users
            /\ GetUser(auth, t) \in DOMAIN auth.objects
            /\ auth.objects[GetUser(auth, t)].ID = GetUser(auth, t))
  /\ [][/\ (Returned("Logout") /\ auth.browser[auth.tasks[1].call.b] # 0) =>
             GetUser(auth', auth.browser[auth.tasks[1].call.b]) = 0
        /\ (Returned("DeleteUser") /\ auth'.last.err = "") =>
             \A t \in DOMAIN auth'.sessions :
               GetUser(auth', t) # auth.tasks[1].call.userID
        /\ (Returned("Login") /\ auth'.last.err # "") =>
             auth'.sessions = auth.sessions
        /\ auth.tasks[1].pc = "login_find" => auth'.sessions = auth.sessions]_vars

C29_Witness ==
  /\ AllIdle
  /\ auth.last.op = "DeleteUser"
  /\ auth.last.err = ""
  /\ auth.pattern = "none"
  /\ auth.browser["b1"] \notin DOMAIN auth.sessions
  /\ auth.browser["b1"] # 0

\* C25: the sessions table, each session's bag and the rate limiter's map
\* are the only mutable state shared by concurrently running request tasks
\* and are accessed under their locks; nothing else written while serving
\* requests, the AuthManager's users and sessions maps in particular, is
\* accessed by two request tasks at once without synchronization.
C25_NoUnsynchronized ==
  \A g, h \in DOMAIN auth.tasks : g # h => ~Conflict(g, h)

(***************************************************************************)
(* The WebSocket hub of examples/websocket: the goroutine of Hub.Run, and  *)
(* per connection the goroutine of handleClient (the reader) and the one   *)
(* it starts to drain client.Send (the writer). sync.RWMutex is not        *)
(* reentrant: RLock waits while any goroutine, the caller included, holds  *)
(* the write lock. Run receives its first event from h.register, and       *)
(* registerClient, holding h.mutex.Lock, calls broadcastToRoom, whose      *)
(* h.mutex.RLock is never granted: the statements of the hub goroutine     *)
(* behind that call are never reached and have no action here.             *)
(***************************************************************************)
SendCap == 1   \* capacity of client.Send (256 in the example)

HubClients == {"c1", "c2"}

\* the room every client of the model joins
Room == "general"

\* Message.Type of what a client sends
MessageTypes == {"chat", "ping", "room_stats", "echo"}

\* select { case client.Send <- m: default: }: the queue after the send, and
\* whether the default branch was taken
TrySend(queue, m) ==
  IF Len(queue) < SendCap
  THEN [queue |-> Append(queue, m), full |-> FALSE]
  ELSE [queue |-> queue, full |-> TRUE]

notHub == <<appVars, sessVars, rateVars, group, wsVars, validation, auth, timing, sends,
            accept>>

\* the /ws handler: Upgrade, the Client with its Send channel, and the send
\* on h.register that waits for Run
Connect(c) ==
  /\ hub.reader[c] = "none"
  /\ hub' = [hub EXCEPT !.reader[c] = "register"]
  /\ UNCHANGED notHub

\* Run: case client := <-h.register; the sender goes on into handleClient
\* and starts the writer
RunRegister(c) ==
  /\ hub.run.pc = "select"
  /\ hub.reader[c] = "register"
  /\ hub' = [hub EXCEPT !.run = [pc |-> "lock", client |-> c],
                        !.reader[c] = "read",
                        !.writer[c] = "range"]
  /\ UNCHANGED notHub

\* registerClient: h.mutex.Lock()
registerClientLock ==
  /\ hub.run.pc = "lock"
  /\ hub.mutex.w = "none"
  /\ hub.mutex.r = {}
  /\ hub' = [hub EXCEPT !.mutex.w = "run", !.run.pc = "insert"]
  /\ UNCHANGED notHub

\* registerClient, lines 74-91: the client is entered in h.clients and in its
\* room; then broadcastToRoom is called and stands at h.mutex.RLock()
registerClientInsert ==
  /\ hub.run.pc = "insert"
  /\ LET c == hub.run.client
     IN  hub' = [hub EXCEPT
                   !.clients = @ \cup {c},
                   !.rooms = MapSet(@, Room, (IF Room \in DOMAIN @ THEN @[Room] ELSE {})
                                             \cup {c}),
                   !.run.pc = "rlock"]
  /\ UNCHANGED notHub

\* handleClient: ReadJSON returns a message of the client, or an error
handleClientRead(c, type, err) ==
  /\ hub.reader[c] = "read"
  /\ LET pong == TrySend(hub.send[c], "pong")
     IN  hub' =
           IF err THEN [hub EXCEPT !.reader[c] = "unregister"]
           ELSE IF type = "ping"
           THEN [hub EXCEPT !.send[c] = pong.queue,
                            !.full[c] = @ \/ pong.full,
                            !.reader[c] = IF pong.full THEN "unregister" ELSE "read"]
           ELSE IF type = "room_stats" THEN [hub EXCEPT !.reader[c] = "stats"]
           ELSE [hub EXCEPT !.reader[c] = "broadcast"]
  /\ UNCHANGED notHub

\* getRoomStats called by the reader: h.mutex.RLock()
getRoomStatsRLock(c) ==
  /\ hub.reader[c] = "stats"
  /\ hub.mutex.w = "none"
  /\ hub' = [hub EXCEPT !.mutex.r = @ \cup {c}, !.reader[c] = "stats_locked"]
  /\ UNCHANGED notHub

\* getRoomStats returns (RUnlock) and the reader sends the statistics
getRoomStatsReturn(c) ==
  /\ hub.reader[c] = "stats_locked"
  /\ LET stats == TrySend(hub.send[c], "room_stats")
     IN  hub' = [hub EXCEPT !.mutex.r = @ \ {c},
                            !.send[c] = stats.queue,
                            !.full[c] = @ \/ stats.full,
                            !.reader[c] = IF stats.full THEN "unregister" ELSE "read"]
  /\ UNCHANGED notHub

\* the writer: for message := range client.Send
WriterReceive(c) ==
  /\ hub.writer[c] = "range"
  /\ hub.send[c] # <<>>
  /\ hub' = [hub EXCEPT !.send[c] = Tail(@), !.writer[c] = "write"]
  /\ UNCHANGED notHub

\* the writer: client.WS.WriteJSON(message); on an error it returns and its
\* deferred client.WS.Close() runs
WriterWriteJSON(c, err) ==
  /\ hub.writer[c] = "write"
  /\ hub' = IF err
            THEN [hub EXCEPT !.writer[c] = "done", !.ws[c] = "closed"]
            ELSE [hub EXCEPT !.writer[c] = "range"]
  /\ UNCHANGED notHub

\* NewHub and go hub.Run(): no client, Run at its select
InitHub ==
  /\ AppOff
  /\ probe = NoProbe
  /\ SessOff
  /\ RateOff
  /\ GroupOff
  /\ WsOff
  /\ validation = <<>>
  /\ auth = <<>>
  /\ hub = [clients |-> {}, rooms |-> EmptyMap,
            mutex |-> [w |-> "none", r |-> {}],
            run |-> [pc |-> "select", client |-> ""],
            send |-> [c \in HubClients |-> <<>>],
            closed |-> [c \in HubClients |-> FALSE],
            full |-> [c \in HubClients |-> FALSE],
            reader |-> [c \in HubClients |-> "none"],
            writer |-> [c \in HubClients |-> "none"],
            ws |-> [c \in HubClients |-> "open"]]
  /\ timing = <<>>
  /\ sends = <<>>
  /\ accept = <<>>

\* what the goroutines do on their own (what a client sends is up to it)
HubSteps ==
  \/ \E c \in HubClients : RunRegister(c)
  \/ registerClientLock
  \/ registerClientInsert
  \/ \E c \in HubClients : getRoomStatsRLock(c)
  \/ \E c \in HubClients : getRoomStatsReturn(c)
  \/ \E c \in HubClients : WriterReceive(c)
  \/ \E c \in HubClients, err \in BOOLEAN : WriterWriteJSON(c, err)

NextHub ==
  \/ \E c \in HubClients : Connect(c)
  \/ \E c \in HubClients, type \in MessageTypes, err \in BOOLEAN : handleClientRead(c, type, err)
  \/ HubSteps

SpecHub == InitHub /\ [][NextHub]_vars

\* every goroutine that can take a step takes one in the end
SpecHubLive == SpecHub /\ WF_vars(HubSteps)

\* a select on client.Send took its default branch: the queue was full
FoundFull(c) == hub.full[c]

\* the client was dropped: its queue closed and its entry in h.clients gone
Dropped(c) == hub.closed[c] /\ c \notin hub.clients

CleanupStep == (smMutex = 0 /\ smMutex' = Cleaner) \/ (smMutex = Cleaner /\ smMutex' = 0)

MaxClock == 3          \* the clock stops here
TimeoutDuration == 2   \* the d of Timeout(d)

TimedKinds == {"Logger", "Timeout", "Secure"}

notTiming == <<sessVars, rateVars, group, wsVars, validation, auth, hub, sends, accept>>

\* the clock advances
Elapse ==
  /\ pc = "handler" \/ timing.tpc = "select"
  /\ timing.now < MaxClock
  /\ timing' = [timing EXCEPT !.now = @ + 1]
  /\ UNCHANGED <<appVars, probe, notTiming>>

\* Logger: start := time.Now(), the deferred function is registered, and
\* `return true` runs it: it logs c.statusCode and time.Since(start)
LoggerCall ==
  /\ pc = "middleware"
  /\ mwIdx <= Len(middleware)
  /\ middleware[mwIdx] = "Logger"
  /\ LET start == timing.now
     IN  timing' = [timing EXCEPT !.log = Append(@,
                      [Method |-> ctx.Request.Method, Path |-> ctx.Request.Path,
                       statusCode |-> ctx.statusCode, duration |-> timing.now - start,
                       at |-> Len(trace) + 1])]
  /\ trace' = Append(trace, Event("Logger", mwIdx, "true"))
  /\ mwIdx' = mwIdx + 1
  /\ UNCHANGED <<routes, middleware, static, uses, pc, ctx, handler, hpc, deferred,
                 outcome, probe, notTiming>>

\* Timeout: done := make(chan bool, 1), the goroutine is started, and the
\* select is entered, which arms time.After(duration)
TimeoutBegin ==
  /\ pc = "middleware"
  /\ mwIdx <= Len(middleware)
  /\ middleware[mwIdx] = "Timeout"
  /\ timing.tpc = "none"
  /\ timing' = [timing EXCEPT !.tpc = "select", !.done = 0, !.armed = timing.now,
                              !.tasks = @ + 1]
  /\ UNCHANGED <<appVars, probe, notTiming>>

\* the goroutine of Timeout: done <- true, into the buffer of one
TimeoutSignal ==
  /\ timing.tasks > 0
  /\ timing' = [timing EXCEPT !.done = 1, !.tasks = @ - 1]
  /\ UNCHANGED <<appVars, probe, notTiming>>

\* select: case <-done: return true
TimeoutDone ==
  /\ timing.tpc = "select"
  /\ timing.done = 1
  /\ timing' = [timing EXCEPT !.tpc = "none", !.done = 0, !.decided = timing.now]
  /\ trace' = Append(trace, Event("Timeout", mwIdx, "true"))
  /\ mwIdx' = mwIdx + 1
  /\ UNCHANGED <<routes, middleware, static, uses, pc, ctx, handler, hpc, deferred,
                 outcome, probe, notTiming>>

\* the timer's case with a slip: the 408 is sent and the request goes on
TimeoutExpired_Continue ==
  /\ timing.tpc = "select"
  /\ timing.now - timing.armed >= TimeoutDuration
  /\ timing' = [timing EXCEPT !.tpc = "none", !.decided = timing.now]
  /\ ctx' = JSON(Status(ctx, 408), ErrValue("{error: Request timeout}")).c
  /\ trace' = Append(trace, Event("Timeout", mwIdx, "true"))
  /\ mwIdx' = mwIdx + 1
  /\ UNCHANGED <<routes, middleware, static, uses, pc, handler, hpc, deferred,
                 outcome, probe, notTiming>>

\* select: case <-time.After(duration): c.Status(408).JSON(...), return false
TimeoutExpired ==
  /\ timing.tpc = "select"
  /\ timing.now - timing.armed >= TimeoutDuration
  /\ timing' = [timing EXCEPT !.tpc = "none", !.decided = timing.now]
  /\ ctx' = JSON(Status(ctx, 408), ErrValue("{error: Request timeout}")).c
  /\ trace' = Append(trace, Event("Timeout", mwIdx, "false"))
  /\ pc' = "done"
  /\ UNCHANGED <<routes, middleware, static, uses, mwIdx, handler, hpc, deferred,
                 outcome, probe, notTiming>>

InitTimed ==
  /\ AppNew
  /\ probe = NoProbe
  /\ SessOff
  /\ RateOff
  /\ GroupOff
  /\ WsOff
  /\ validation = <<>>
  /\ auth = <<>>
  /\ hub = <<>>
  /\ timing = [now |-> 0, log |-> <<>>, tpc |-> "none", done |-> 0, armed |-> 0,
               tasks |-> 0, decided |-> 0]
  /\ sends = <<>>
  /\ accept = <<>>

NextTimed ==
  \/ \E m \in TimedKinds : Use(m)
  \/ \E reg \in Registrations : Register(reg)
  \/ \E r \in Requests : ServeHTTPBegin(r, FALSE)
  \/ RunMiddleware
  \/ LoggerCall
  \/ TimeoutBegin
  \/ TimeoutSignal
  \/ TimeoutDone
  \/ TimeoutExpired
  \/ Elapse
  \/ MatchRoute
  \/ HandlerShow
  \/ HandlerCreateUserRead
  \/ HandlerCreateUserInvalid
  \/ HandlerCreateUserRejected
  \/ HandlerCreateUserCreated
  \/ HandlerBoom
  \/ HandlerWriteBoomWrite
  \/ HandlerWriteBoomPanic

SpecTimed == InitTimed /\ [][NextTimed]_vars

TimeoutCalls == {i \in 1..Len(trace) : trace[i].call = "Timeout"}

C27_LoggerAfterHandler ==
  \A i \in 1..Len(timing.log) :
    LET e == timing.log[i]
    IN  (AllContinued /\ Matching # {}) =>
          /\ \E j \in HandlerCalls : j < e.at
          /\ hpc \in {"returned", "panicked"}
          /\ e.statusCode = ctx.statusCode
          /\ e.duration = timing.now

\* what Logger does: its entry is produced when Logger returns, before any
\* later middleware and the handler, with the status set so far and no time
\* measured
LoggerLogsAtReturn ==
  \A i \in 1..Len(timing.log) :
    LET e == timing.log[i]
    IN  /\ trace[e.at] = Event("Logger", e.at, "true")
        /\ \A j \in HandlerCalls : e.at < j
        /\ e.statusCode = 200
        /\ e.duration = 0

(***************************************************************************)
(* A Context on which a handler calls Status and the response-sending      *)
(* methods, at most MaxSends calls in any order.                           *)
(***************************************************************************)
MaxSends == 3

StatusCodes == {200, 201, 404}

\* the sending calls with their arguments; JSON is handed a value to send
SendCalls ==
  { [method |-> "JSON", arg |-> "{}"], [method |-> "String", arg |-> "text"],
    [method |-> "HTML", arg |-> "<p>"], [method |-> "Render", arg |-> "<html>"],
    [method |-> "Render", arg |-> ""], [method |-> "File", arg |-> "exists"],
    [method |-> "File", arg |-> "missing"], [method |-> "Redirect", arg |-> "/login"] }

\* the context after the call
Apply(c, call) ==
  CASE call.method = "JSON"     -> JSON(c, [ptr |-> FALSE, val |-> call.arg]).c
    [] call.method = "String"   -> String(c, call.arg)
    [] call.method = "HTML"     -> HTML(c, call.arg)
    [] call.method = "Render"   -> Render(c, call.arg).c
    [] call.method = "File"     -> File(c, call.arg = "exists")
    [] call.method = "Redirect" -> Redirect(c, call.arg)

\* the calls that emit a response: every one but a JSON that reads the body
Emits(c, call) == call.method = "JSON" => EmitterMode(c)

notSends == <<routes, middleware, static, uses, pc, mwIdx, handler, hpc, deferred, trace,
              outcome, probe, sessVars, rateVars, group, wsVars, validation, auth, hub,
              timing, accept>>

\* the handler calls c.Status(code)
StatusCall(code) ==
  /\ Len(sends) < MaxSends
  /\ ctx' = Status(ctx, code)
  /\ sends' = Append(sends, [method |-> "Status", emits |-> FALSE])
  /\ UNCHANGED notSends

\* the handler calls a sending method
SendCall(call) ==
  /\ Len(sends) < MaxSends
  /\ ctx' = Apply(ctx, call)
  /\ sends' = Append(sends, [method |-> call.method, emits |-> Emits(ctx, call)])
  /\ UNCHANGED notSends

\* NewContext for any request
InitSends ==
  /\ routes = <<>>
  /\ middleware = <<>>
  /\ static = {}
  /\ uses = <<>>
  /\ pc = "off"
  /\ \E r \in Requests : ctx = NewContext(r)
  /\ mwIdx = 0
  /\ handler = NilHandler
  /\ hpc = "none"
  /\ deferred = <<>>
  /\ trace = <<>>
  /\ outcome = "none"
  /\ probe = NoProbe
  /\ SessOff
  /\ RateOff
  /\ GroupOff
  /\ WsOff
  /\ validation = <<>>
  /\ auth = <<>>
  /\ hub = <<>>
  /\ timing = <<>>
  /\ sends = <<>>
  /\ accept = <<>>

NextSends ==
  \/ \E code \in StatusCodes : StatusCall(code)
  \/ \E call \in SendCalls : SendCall(call)

SpecSends == InitSends /\ [][NextSends]_vars

\* the calls made so far that emitted a response
Emitted == {i \in 1..Len(sends) : sends[i].emits}

\* the methods that hand their argument to Response.Write themselves
DirectWriters == {"JSON", "String", "HTML"}

\* C30: the written flag is false on a new context and true exactly when a
\* response-emitting call was made; no step resets it; no sending method
\* reads it: the response a call leaves is the same whatever the flag is,
\* and String, HTML and an emitting JSON add their output to the body on
\* every call, a second one included.
C30_WrittenFlag ==
  /\ [](ctx.written <=> Emitted # {})
  /\ [](\A call \in SendCalls :
          Apply([ctx EXCEPT !.written = ~@], call).Response = Apply(ctx, call).Response)
  /\ [][/\ ctx.written => ctx'.written
        /\ (Len(sends') > Len(sends) /\ sends'[Len(sends')].emits
              /\ sends'[Len(sends')].method \in DirectWriters)
             => Len(ctx'.Response.body) = Len(ctx.Response.body) + 1]_vars

\* a second send on a context already written to: String, then HTML
C30_Witness ==
  /\ Len(sends) = 2
  /\ sends[1].method = "String"
  /\ sends[2].method = "HTML"
  /\ ctx.written
  /\ ctx.Response.body = <<"text", "<p>">>

(***************************************************************************)
(* Uniqueness of usernames and email addresses in the user table.          *)
(***************************************************************************)
\* no two stored users share a username
UsernamesUnique ==
  \A i, j \in auth.users : i # j => auth.objects[i].Username # auth.objects[j].Username

\* no two stored users share an email address
EmailsUnique ==
  \A i, j \in auth.users : i # j => auth.objects[i].Email # auth.objects[j].Email

\* a Register call whose username or email is in use returns the error and
\* leaves both tables and the stored users as they were
RegisterRejects ==
  [][(Returned("Register")
        /\ UserExists(auth, auth.tasks[1].call.username, auth.tasks[1].call.email)) =>
       /\ auth'.last.err = "user already exists"
       /\ auth'.users = auth.users
       /\ auth'.sessions = auth.sessions
       /\ \A id \in auth.users : auth'.objects[id] = auth.objects[id]]_vars

\* a Register call was turned down in a state that has a user
RegisterRejects_Witness ==
  /\ AllIdle
  /\ auth.last.op = "Register"
  /\ auth.last.err = "user already exists"
  /\ auth.users # {}

\* C31: after any sequence of AuthManager operations no two stored users
\* share a username or an email address: Register with a used username or
\* email returns an error and leaves the user and session tables unchanged,
\* and no other operation (UpdateUser included) introduces a duplicate.
C31_UniqueUsers ==
  /\ [](UsernamesUnique /\ EmailsUnique)
  /\ RegisterRejects

\* the hub goroutine holds h.mutex.Lock
RunHoldsLock == hub.mutex.w = "run"

\* Run is back at its select, the lock released
RunAtSelect == hub.run.pc = "select" /\ hub.mutex.w = "none"

\* client c is sending on h.register
Registering(c) == hub.reader[c] = "register"

\* C32: the hub's event loop never blocks forever while handling one event:
\* every registerClient and unregisterClient call that took the hub lock
\* finishes and releases it, so every event sent to the hub later is
\* processed in the end.
C32_RunNeverBlocks ==
  /\ RunHoldsLock ~> RunAtSelect
  /\ \A c \in HubClients : Registering(c) ~> (c \in hub.clients /\ RunAtSelect)

\* client c is in neither h.clients nor the map of its room
Removed(c) ==
  /\ c \notin hub.clients
  /\ Room \in DOMAIN hub.rooms => c \notin hub.rooms[Room]

\* no step sends on a closed client.Send, and none closes it again
NoSendAfterClose ==
  [][\A c \in HubClients :
       hub.closed[c] => (hub'.closed[c] /\ Len(hub'.send[c]) <= Len(hub.send[c]))]_vars

HasSession(g) == gor[g].pc \in {"gs_return", "ready", "op_access", "op_unlock"}

\* C34: under any interleaving of concurrent GetSession calls there is at
\* most one Session per ID, the id of each stored Session equals its key, and
\* two concurrent requests that carry the same cookie value obtain the same
\* Session object: lookup and insertion are one step under the table lock.
C34_OneSessionPerID ==
  /\ \A a, b \in 1..Len(heap) : a # b => heap[a].id # heap[b].id
  /\ \A id \in DOMAIN sessions : heap[sessions[id]].id = id
  /\ \A g, h \in Goroutines :
       (HasSession(g) /\ HasSession(h) /\ gor[g].sessionID = gor[h].sessionID) =>
          gor[g].session = gor[h].session
  /\ \A g \in Goroutines :
       gor[g].pc \in {"gs_lookup", "gs_insert", "gs_return"} => smMutex = g

\* both requests carry the cookie t1, unknown to the table when they came:
\* one made the Session and uses it, the other has found that same Session
C34_Witness ==
  \E g, h \in Goroutines :
    /\ gor[g].pc = "op_access"
    /\ gor[g].sessionID = "t1"
    /\ gor[h].pc = "gs_return"
    /\ gor[h].sessionID = "t1"
    /\ gor[h].exists
    /\ gor[h].session = gor[g].session
    /\ Len(heap) = 1

(***************************************************************************)
(* RateLimit(requestsPerMinute) called by request goroutines at once: the  *)
(* middleware statement by statement, with its mutex mu. c.IP() and        *)
(* time.Now() are read before mu.Lock(); cl points to the entry of the     *)
(* clients map. calls.passed counts, for each entry of the map, the calls  *)
(* that returned true since the entry was made.                            *)
(***************************************************************************)
IdleLimited ==
  [pc |-> "idle", ip |-> "", t |-> 0, seen |-> 0, ret |-> "none", c |-> NewContext(NoRequest)]

\* lines 109-110: ip := c.IP(); now := time.Now()
RateLimitBegin(g, r) ==
  /\ limiter.tasks[g].pc = "idle"
  /\ limiter' = [limiter EXCEPT !.tasks[g] =
                   [IdleLimited EXCEPT !.pc = "mu_lock", !.ip = IP(NewContext(r)),
                                       !.t = now, !.c = NewContext(r)]]
  /\ UNCHANGED <<now, calls, ctx, notRate>>

\* mu.Lock() with a slip: the call goes on without waiting for the mutex
RateLimitLock_NoWait(g) ==
  /\ limiter.tasks[g].pc = "mu_lock"
  /\ limiter' = [limiter EXCEPT !.mu = g, !.tasks[g].pc = "sweep"]
  /\ UNCHANGED <<now, calls, ctx, notRate>>

\* mu.Lock()
RateLimitLock(g) ==
  /\ limiter.tasks[g].pc = "mu_lock"
  /\ limiter.mu = 0
  /\ limiter' = [limiter EXCEPT !.mu = g, !.tasks[g].pc = "sweep"]
  /\ UNCHANGED <<now, calls, ctx, notRate>>

\* lines 116-120: the entries whose reset time has passed are deleted
RateLimitSweep(g) ==
  /\ limiter.tasks[g].pc = "sweep"
  /\ limiter' = [limiter EXCEPT !.clients = Sweep(@, limiter.tasks[g].t),
                                !.tasks[g].pc = "lookup"]
  /\ UNCHANGED <<now, calls, ctx, notRate>>

\* lines 123-130: cl, exists := clients[ip], and a new entry if there is none
RateLimitLookup(g) ==
  /\ limiter.tasks[g].pc = "lookup"
  /\ LET task == limiter.tasks[g]
         exists == task.ip \in DOMAIN limiter.clients
     IN  /\ limiter' = [limiter EXCEPT
                          !.clients = IF exists THEN @
                                      ELSE MapSet(@, task.ip, [requests |-> 0,
                                                               reset |-> task.t + Minute]),
                          !.tasks[g].pc = "check"]
         /\ calls' = IF exists THEN calls ELSE [calls EXCEPT !.passed[task.ip] = 0]
  /\ UNCHANGED <<now, ctx, notRate>>

\* lines 133-138: the limit check; over the limit the 429 answer is sent
\* (a deleted entry is still reachable through cl: 0 stands for its counter
\* being read from the object no map holds any more)
RateLimitCheck(g) ==
  /\ limiter.tasks[g].pc = "check"
  /\ LET task == limiter.tasks[g]
         requests == IF task.ip \in DOMAIN limiter.clients
                     THEN limiter.clients[task.ip].requests ELSE 0
     IN  limiter' =
           IF OverLimit(requests, limiter.requestsPerMinute)
           THEN [limiter EXCEPT
                   !.tasks[g] = [@ EXCEPT
                      !.pc = "mu_unlock", !.seen = requests, !.ret = "false",
                      !.c = JSON(Status(task.c, 429),
                                 ErrValue("{error: Rate limit exceeded}")).c]]
           ELSE [limiter EXCEPT !.tasks[g] = [@ EXCEPT !.pc = "increment",
                                                       !.seen = requests]]
  /\ UNCHANGED <<now, calls, ctx, notRate>>

\* lines 140-147: cl.requests++ and the three headers
RateLimitIncrement(g) ==
  /\ limiter.tasks[g].pc = "increment"
  /\ LET task == limiter.tasks[g]
         n == limiter.requestsPerMinute
         held == task.ip \in DOMAIN limiter.clients
         requests == IF held THEN limiter.clients[task.ip].requests + 1 ELSE 1
         reset == IF held THEN limiter.clients[task.ip].reset ELSE task.t + Minute
         c1 == Header(task.c, "X-RateLimit-Limit", Itoa(n))
         c2 == Header(c1, "X-RateLimit-Remaining", Itoa(n - requests))
         c3 == Header(c2, "X-RateLimit-Reset", Itoa(reset))
     IN  limiter' = [limiter EXCEPT
                       !.clients = IF held THEN [@ EXCEPT ![task.ip].requests = requests]
                                   ELSE @,
                       !.tasks[g] = [@ EXCEPT !.pc = "mu_unlock", !.ret = "true", !.c = c3]]
  /\ UNCHANGED <<now, calls, ctx, notRate>>

\* the middleware returns and the deferred mu.Unlock() runs
RateLimitUnlock(g) ==
  /\ limiter.tasks[g].pc = "mu_unlock"
  /\ LET task == limiter.tasks[g]
     IN  /\ limiter' = [limiter EXCEPT !.mu = 0, !.tasks[g] = IdleLimited]
         /\ calls' = IF task.ret = "true" /\ task.ip \in DOMAIN calls.passed
                     THEN [calls EXCEPT !.passed[task.ip] = @ + 1]
                     ELSE calls
  /\ UNCHANGED <<now, ctx, notRate>>

\* the requests of the goroutines: one without and one with a body
LimitedRequests ==
  {r \in RateRequests : (r.Method = "GET" /\ r.Body = "eof") \/ (r.Method = "POST" /\ r.Body = "json")}

\* RateLimit(n) is built and serves the requests of two goroutines
InitRateTasks ==
  /\ AppOff
  /\ probe = NoProbe
  /\ SessOff
  /\ \E n \in 1..MaxLimit :
       limiter = [requestsPerMinute |-> n, clients |-> EmptyMap, mu |-> 0,
                  tasks |-> [g \in Goroutines |-> IdleLimited]]
  /\ now = 0
  /\ calls = [passed |-> [a \in RemoteAddrs |-> 0]]
  /\ GroupOff
  /\ WsOff
  /\ MoreOff

NextRateTasks ==
  \/ \E g \in Goroutines, r \in LimitedRequests : RateLimitBegin(g, r)
  \/ \E g \in Goroutines : RateLimitLock(g)
  \/ \E g \in Goroutines : RateLimitSweep(g)
  \/ \E g \in Goroutines : RateLimitLookup(g)
  \/ \E g \in Goroutines : RateLimitCheck(g)
  \/ \E g \in Goroutines : RateLimitIncrement(g)
  \/ \E g \in Goroutines : RateLimitUnlock(g)
  \/ Tick

SpecRateTasks == InitRateTasks /\ [][NextRateTasks]_vars

\* the statements between mu.Lock() and mu.Unlock()
InCriticalSection(g) ==
  limiter.tasks[g].pc \in {"sweep", "lookup", "check", "increment", "mu_unlock"}

\* C35: for any interleaving of concurrent requests a client's stored
\* counter never exceeds N and at most N of the requests that fall into one
\* window (one entry of the clients map) pass the middleware: sweep, lookup,
\* limit check and increment are one critical section; a rejected request
\* does not increment the counter.
C35_RateLimitConcurrent ==
  /\ \A ip \in DOMAIN limiter.clients :
       /\ limiter.clients[ip].requests <= limiter.requestsPerMinute
       /\ calls.passed[ip] <= limiter.clients[ip].requests
  /\ \A g, h \in Goroutines : (InCriticalSection(g) /\ InCriticalSection(h)) => g = h
  /\ \A g \in Goroutines :
       limiter.tasks[g].pc = "mu_unlock" =>
          LET task == limiter.tasks[g]
          IN  /\ task.ip \in DOMAIN limiter.clients
              /\ task.ret = "false" =>
                   /\ limiter.clients[task.ip].requests = task.seen
                   /\ task.seen = limiter.requestsPerMinute
              /\ task.ret = "true" =>
                   /\ limiter.clients[task.ip].requests = task.seen + 1
                   /\ calls.passed[task.ip] = task.seen

\* two requests of one client are in the middleware at once, the limit is
\* reached: one is being turned down while the other waits for the mutex
C35_Witness ==
  \E g, h \in Goroutines :
    /\ limiter.tasks[g].pc = "mu_unlock"
    /\ limiter.tasks[g].ret = "false"
    /\ limiter.tasks[h].pc = "mu_lock"
    /\ limiter.tasks[h].ip = limiter.tasks[g].ip
    /\ limiter.tasks[h].t < limiter.tasks[g].t
    /\ limiter.requestsPerMinute = 2
    /\ calls.passed[limiter.tasks[g].ip] = 2

\* Context.Param: c.params[name], the empty string for a name not bound
Param(c, name) == IF name \in DOMAIN c.params THEN c.params[name] ELSE <<>>

\* the names a handler or a middleware may ask for
ParamNames == {<<"i", "d">>, <<"m", "e">>, <<>>}

\* C36: while the middleware pipeline runs the context's path-parameter map
\* is empty (Context.Param returns the empty string for every name); the
\* bindings of the matched route become visible only after all middleware
\* returned true and the route matched, immediately before the handler is
\* invoked.
C36_ParamsAfterMiddleware ==
  /\ [](pc = "middleware" =>
          /\ ctx.params = EmptyMap
          /\ \A name \in ParamNames : Param(ctx, name) = <<>>)
  /\ [][ctx'.params # ctx.params /\ ctx'.params # EmptyMap =>
          /\ pc = "middleware" /\ pc' = "handler"
          /\ mwIdx > Len(middleware)
          /\ AllContinued
          /\ Matching # {}
          /\ ctx'.params = Match(routes, ctx.Request.Method, ctx.Request.Path).params
          /\ Cardinality(HandlerCalls) = 0]_vars
  /\ [](pc = "handler" =>
          ctx.params = Match(routes, ctx.Request.Method, ctx.Request.Path).params)

\* two middleware returned true and the handler of /u/:id is about to run
\* with id bound
C36_Witness ==
  /\ pc = "handler"
  /\ hpc = "start"
  /\ Len(middleware) = 2
  /\ Param(ctx, <<"i", "d">>) = <<"7">>
  /\ Param(ctx, <<"m", "e">>) = <<>>

(***************************************************************************)
(* The CORS middleware in the pipeline of ServeHTTP. A request carries an  *)
(* Origin header ("" when it has none).                                    *)
(***************************************************************************)
Origins == {"", "https://a.example"}

\* CORS(): the configuration it passes to CORSWithConfig
DefaultCORSConfig ==
  [AllowOrigins |-> <<"*">>,
   AllowMethods |-> <<"GET", "POST", "PUT", "DELETE", "OPTIONS">>,
   AllowHeaders |-> <<"Content-Type", "Authorization">>]

\* strings.Join(elems, sep): the pieces of the result, in order
RECURSIVE Join(_, _)
Join(elems, sep) ==
  IF Len(elems) <= 1 THEN elems
  ELSE <<Head(elems), sep>> \o Join(Tail(elems), sep)

\* the middleware CORSWithConfig(config) returns, called on the context c:
\* gives the context and the return value
CORSWithConfig(config, c) ==
  LET origin == c.Request.Origin
      allowed == \E i \in 1..Len(config.AllowOrigins) :
                   config.AllowOrigins[i] = "*" \/ config.AllowOrigins[i] = origin
      c1 == IF allowed THEN Header(c, "Access-Control-Allow-Origin", origin) ELSE c
      c2 == Header(c1, "Access-Control-Allow-Methods", Join(config.AllowMethods, ", "))
      c3 == Header(c2, "Access-Control-Allow-Headers", Join(config.AllowHeaders, ", "))
      c4 == Header(c3, "Access-Control-Allow-Credentials", "true")
  IN  IF c4.Request.Method = "OPTIONS"
      THEN [c |-> Status(c4, 204), ret |-> "false"]
      ELSE [c |-> c4, ret |-> "true"]

\* one round of ServeHTTP's middleware loop whose middleware is CORS()
CORSCall ==
  /\ pc = "middleware"
  /\ mwIdx <= Len(middleware)
  /\ middleware[mwIdx] = "CORS"
  /\ LET res == CORSWithConfig(DefaultCORSConfig, ctx)
     IN  /\ trace' = Append(trace, Event("CORS", mwIdx, res.ret))
         /\ ctx' = res.c
         /\ pc' = AfterMiddleware(res.ret)
         /\ mwIdx' = IF pc' = "middleware" THEN mwIdx + 1 ELSE mwIdx
  /\ UNCHANGED <<routes, middleware, static, uses, handler, hpc, deferred, outcome,
                 probe, ext>>

\* the requests of a browser: the requests of the application and the
\* preflight requests for their paths
CORSRequests ==
  { [Method |-> r.Method, Path |-> r.Path, ContentLength |-> r.ContentLength,
     Body |-> r.Body, Origin |-> o] :
      r \in Requests \cup { [Method |-> "OPTIONS", Path |-> p, ContentLength |-> 0,
                             Body |-> "eof"] : p \in RequestPaths },
      o \in Origins }

NextCORS ==
  \/ \E m \in {"CORS", "Secure"} : Use(m)
  \/ \E reg \in Registrations : Register(reg)
  \/ \E r \in CORSRequests : ServeHTTPBegin(r, FALSE)
  \/ RunMiddleware
  \/ CORSCall
  \/ MatchRoute
  \/ HandlerShow
  \/ HandlerCreateUserRead
  \/ HandlerCreateUserInvalid
  \/ HandlerCreateUserRejected
  \/ HandlerCreateUserCreated
  \/ HandlerBoom
  \/ HandlerWriteBoomWrite
  \/ HandlerWriteBoomPanic

SpecCORS == Init /\ [][NextCORS]_vars

CORSCalls == {i \in 1..Len(trace) : trace[i].call = "CORS"}

\* CORS was called for an OPTIONS request
Preflight == ctx.Request.Method = "OPTIONS" /\ CORSCalls # {}

\* the preflight apart from what is sent: CORS is the last thing that runs,
\* no handler runs, and the context's status is 204
PreflightStops ==
  Preflight =>
    /\ \A i \in CORSCalls : i = Len(trace) /\ trace[i].ret = "false"
    /\ HandlerCalls = {}
    /\ pc = "done"
    /\ ctx.statusCode = 204
    /\ "Access-Control-Allow-Methods" \in DOMAIN ctx.Response.header

PreflightStops_Witness ==
  /\ Preflight
  /\ Len(middleware) = 2
  /\ middleware[1] = "CORS"
  /\ Matching = {}
  /\ Len(routes) > 0

\* C37: for an OPTIONS request the CORS middleware handles the preflight
\* itself: it stops the pipeline (no later middleware and no handler runs)
\* and the response sent to the client has status 204.
C37_Preflight204 ==
  Preflight =>
    /\ \A i \in CORSCalls : i = Len(trace) /\ trace[i].ret = "false"
    /\ HandlerCalls = {}
    /\ pc = "done"
    /\ ClientStatus = 204

\* the one segment "/" compiles to: a literal with the empty value
EmptyLiteral == [IsParam |-> FALSE, Name |-> <<>>, Value |-> <<>>]

\* the path has no character but slashes
OnlySlashes(path) == \A i \in 1..Len(path) : path[i] = "/"

\* C38: route matching ignores leading and trailing slashes: Match(m, p) and
\* Match(m, p + "/") give the same result for every method and path, a route
\* registered with a trailing (or leading) slash more behaves like the route
\* without it, and the root template "/" compiles to a single empty literal
\* segment and matches exactly the paths that are empty after trimming
\* slashes.
C38_SlashesIgnored ==
  /\ probe.phase = "added" =>
       LET t == routes[1].Path
       IN  /\ compilePattern(Append(t, "/")) = routes[1].Pattern
           /\ compilePattern(<<"/">> \o t) = routes[1].Pattern
           /\ t = <<"/">> => routes[1].Pattern.Segments = <<EmptyLiteral>>
  /\ probe.phase = "matched" =>
       LET t == routes[1].Path
           withSlash == Add(<<>>, routes[1].Method, Append(t, "/"), routes[1].Handler)
       IN  /\ Match(routes, probe.method, Append(probe.path, "/")) = probe.result
           /\ Match(routes, probe.method, <<"/">> \o probe.path) = probe.result
           /\ Match(withSlash, probe.method, probe.path) = probe.result
           /\ t = <<"/">> =>
                (ProbeFound <=> (probe.method = routes[1].Method /\ OnlySlashes(probe.path)))

\* the route "/a/" was found for the path "a", and so it is for "a/"
C38_Witness ==
  /\ probe.phase = "matched"
  /\ routes[1].Path = <<"/", "a", "/">>
  /\ probe.path = <<"a">>
  /\ ProbeFound
  /\ Match(routes, probe.method, <<"a", "/">>).handler = "h"

\* the root template was found for a path of slashes
C38_RootWitness ==
  /\ probe.phase = "matched"
  /\ routes[1].Path = <<"/">>
  /\ probe.path = <<"/", "/">>
  /\ ProbeFound

\* WriteMessage was called with a payload of 65536 bytes or more
WroteHuge == conn.op = "write" /\ conn.done /\ Len(conn.data) >= 65536

\* C40: for a payload of 65536 bytes or more WriteMessage reports no error
\* (unless the connection's Write fails): it writes the marker 126 and a
\* 16-bit length field equal to the payload length modulo 65536, followed by
\* the complete payload, so the declared length differs from the number of
\* payload bytes written.
C40_LengthWraps ==
  WroteHuge =>
    LET n == Len(conn.data)
        res == WriteMessage(conn.data, FALSE)
        f == res.wire
    IN  /\ ~res.err
        /\ ~conn.err => conn.wire = f
        /\ f[1] = 129
        /\ f[2] = 126
        /\ 256 * f[3] + f[4] = n % 65536
        /\ Len(f) = n + 4
        /\ \A i \in 1..n : f[i + 4] = conn.data[i]
        /\ 256 * f[3] + f[4] # n

C40_Witness ==
  /\ WroteHuge
  /\ ~conn.err
  /\ Len(conn.data) = 65536
  /\ Len(conn.wire) = 65540
  /\ conn.wire[3] = 0
  /\ conn.wire[4] = 0
  /\ conn.wire[65540] = conn.data[65536]

(***************************************************************************)
(* Round trips: what WriteMessage wrote is handed to ReadMessage, and a    *)
(* client frame that carries a payload masked with a key is read.          *)
(***************************************************************************)
\* the frame a client sends for a payload (RFC 6455, 5.2): FIN and text
\* opcode, the mask bit with the length (126 and a 16-bit length from 126
\* bytes on), the key, the payload XOR-ed with the key
ClientFrame(data, key) ==
  (IF Len(data) < 126
   THEN <<129, 128 + Len(data)>>
   ELSE <<129, 128 + 126, byte(Len(data) \div 256), byte(Len(data) % 256)>>)
  \o key \o Unmask(data, key)

\* the payloads of the round trips
TripPayloads ==
  UNION {BytesOfLen(n) : n \in 0..MaxPayloadLen} \cup {Pattern(n, n) : n \in {125, 126, 300}}

\* the bytes WriteMessage wrote arrive at a ReadMessage
Loopback ==
  /\ conn.op = "write"
  /\ conn.done
  /\ ~conn.err
  /\ conn' = [NoConn EXCEPT !.op = "read", !.data = conn.data, !.stream = conn.wire]
  /\ UNCHANGED notConn

\* a client sends the payload in a frame masked with key
ClientSend(key) ==
  /\ conn.op = "client"
  /\ conn' = [NoConn EXCEPT !.op = "read", !.data = conn.data,
                            !.stream = ClientFrame(conn.data, key)]
  /\ UNCHANGED notConn

InitTrips ==
  /\ AppOff
  /\ probe = NoProbe
  /\ SessOff
  /\ RateOff
  /\ GroupOff
  /\ up = <<>>
  /\ MoreOff
  /\ \E data \in TripPayloads, op \in {"write", "client"} :
       conn = [NoConn EXCEPT !.op = op, !.data = data]

NextTrips ==
  \/ \E writeErr \in BOOLEAN : WriteMessageCall(writeErr)
  \/ Loopback
  \/ \E key \in MaskKeys : ClientSend(key)
  \/ ReadMessageCall

SpecTrips == InitTrips /\ [][NextTrips]_vars

\* the round trip of the payloads that fit the 7-bit length, when each Read
\* fills its buffer
SmallRoundTrip ==
  (HasRead /\ ~conn.short /\ Len(conn.data) < 126) =>
     /\ ~conn.err
     /\ conn.payload = conn.data
     /\ conn.rest = <<>>

SmallRoundTrip_Witness ==
  /\ HasRead
  /\ ~conn.short
  /\ Len(conn.data) = 125
  /\ Masked(conn.stream)
  /\ conn.stream[3] = 255

\* C39: frame round trip: for every payload p, ReadMessage on the bytes
\* WriteMessage(p) emitted returns p; and ReadMessage on a client frame
\* masked with any 4-byte key returns the original unmasked payload.
C39_RoundTrip ==
  HasRead =>
     /\ ~conn.err
     /\ conn.payload = conn.data

====
